---- MODULE Spec2Model ----
(***************************************************************************)
(* mod_weather_vibe: per-zone weather scheduler (fade-out, fade-in, dwell) *)
(* with weighted selection and repeat avoidance.                           *)
(*                                                                         *)
(* Grades (float in the source) are fixed-point integers in units of 1e-4, *)
(* the resolution of RandUnit() and of kMinGrade; the configurations used  *)
(* keep every product exact, so no rounding is introduced.  Percentages    *)
(* pct01 use the same unit.  Times are in milliseconds as in the source.   *)
(***************************************************************************)
EXTENDS Integers, Sequences, FiniteSets, TLC

\* ------------------------------------------------------------------ units
One == 10000
kMinGrade == 1
kMaxGrade == 9999
kEps == 1

WEATHER_STATE_FINE == 0
WEATHER_STATE_FOG == 1
WEATHER_STATE_LIGHT_RAIN == 3

\* The accepted effects the model works with (a subset of kAcceptedStates).
kAcceptedStates == {WEATHER_STATE_FINE, WEATHER_STATE_FOG, WEATHER_STATE_LIGHT_RAIN}

\* The day parts the model works with (two of the four buckets).
DayParts == {"MORNING", "AFTERNOON"}
NoDp == "unset"

ZoneIds == {1, 2}

\* ----------------------------------------------------------------- bounds
\* Cap of the consecutive-pick counter (uint32 in the source).
MaxRepeats == 4

\* Sample points of RandUnit() = urand(0,10000)/10000.
RandUnitDraws == {0, 10000}

\* Elapsed times a host tick may carry (ms).
DiffChoices == {500, 2000}

\* ---------------------------------------------------------------- helpers
Max(a, b) == IF a >= b THEN a ELSE b
Min(a, b) == IF a <= b THEN a ELSE b
Clamp(v, lo, hi) == IF v < lo THEN lo ELSE IF v > hi THEN hi ELSE v
CeilDiv(a, b) == (a + b - 1) \div b

\* Variant that lets every effect id through.
IsValidWeatherState_AnyId(value) == TRUE

IsValidWeatherState(value) == value \in kAcceptedStates

\* Variant without the upper bound: a grade of 1.0 or more goes through.
ClampToCoreBounds_NoUpper(g) == IF g < 0 THEN kMinGrade ELSE g

ClampToCoreBounds(g) ==
    IF g < 0 THEN kMinGrade
    ELSE IF g >= One THEN kMaxGrade
    ELSE g

Range(a, b) == [min |-> a, max |-> b]

\* ParseRangePair on an already scanned pair: swap when inverted, clamp to [0,1].
ParseRangePair(pair) ==
    LET a == IF pair[2] < pair[1] THEN pair[2] ELSE pair[1]
        b == IF pair[2] < pair[1] THEN pair[1] ELSE pair[2]
    IN Range(Clamp(a, 0, One), Clamp(b, 0, One))

\* ParseZoneEntry on an already scanned tuple <<state, w, pmin, pmax, dmin, dmax>>.
ParseZoneEntry(raw) ==
    LET pmin == IF raw[4] < raw[3] THEN raw[4] ELSE raw[3]
        pmax == IF raw[4] < raw[3] THEN raw[3] ELSE raw[4]
    IN [state |-> raw[1],
        weight |-> raw[2],
        minPct |-> Clamp(pmin, 0, 100),
        maxPct |-> Clamp(pmax, 0, 100),
        dwellMinSec |-> Min(raw[5], 24 * 3600),
        dwellMaxSec |-> Min(Max(raw[6], raw[5]), 24 * 3600)]

RandIn(a, b) == IF a > b THEN b..a ELSE a..b
RandDuration(minSec, maxSec) == {x * 1000 : x \in RandIn(minSec, maxSec)}

\* ------------------------------------------------------------ environment
\* E is what a handler reads of the engine globals and of the clock:
\* [dp, model, ranges, intervalSec, repeatMax, step, stepMin, stepMax].

MapPercentToRawGrade(E, dp, state, percent01) ==
    LET p == Clamp(percent01, 0, One)
        table == E.ranges[dp]
        r == IF state \in DOMAIN table THEN table[state] ELSE Range(3000, One)
    IN r.min + (p * (r.max - r.min)) \div One

GetRange(E, dp, st) ==
    LET t == E.ranges[dp]
    IN IF st \in DOMAIN t THEN t[st] ELSE Range(3000, 9000)

ApexFromPct(E, dp, st, pct01) == MapPercentToRawGrade(E, dp, st, pct01)

HasAnyActive(entries) == \E i \in 1..Len(entries) : entries[i].weight > 0

\* <<>> stands for the null pointer (a stored config is never empty).
GetZoneDaypart(E, zoneId, dp) ==
    IF zoneId \in DOMAIN E.model[dp] THEN E.model[dp][zoneId] ELSE <<>>

FindEntry(entries, st) ==
    LET hits == {i \in 1..Len(entries) : entries[i].state = st}
    IN IF hits = {} THEN <<>>
       ELSE <<entries[CHOOSE i \in hits : \A j \in hits : i <= j]>>


\* ---------------------------------------------------------------- records
RepeatState(last, n) == [lastPicked |-> last, repeats |-> n]

\* A default-constructed ZoneRuntime with its id and stagger offset set.
ZoneRuntime(zid, offsetMs) ==
    [zoneId |-> zid,
     msAccumulator |-> 0,
     stepRemainingMs |-> 0,
     phaseRemainingMs |-> 0,
     zoneOffsetMs |-> offsetMs,
     phase |-> "Idle",
     currentState |-> WEATHER_STATE_FINE,
     currentGrade |-> 0,
     fadeOutStepsLeft |-> 0,
     fadeOutStart |-> 0,
     fadeOutTarget |-> 0,
     fadeInStepsLeft |-> 0,
     fadeInStart |-> 0,
     apexTarget |-> 0,
     nextState |-> WEATHER_STATE_FINE,
     rpt |-> RepeatState(WEATHER_STATE_FINE, 0),
     initialized |-> FALSE]

LastApplied(st, g) == [state |-> st, grade |-> g, hasValue |-> TRUE]

\* W is what a handler works on: rt (g_Runtime), la (g_LastApplied), sent
\* (the packets handed to the sink so far in this operation), calls (the
\* planner / executor / timer invocations made so far in this operation,
\* each with the ZoneRuntime before and after and the packets it sent) and
\* occupied (the zones in which SendZoneMessage finds a session).

\* Variant that keeps one last-applied slot for all zones.
PushWeatherToClient_SharedSlot(W, zoneId, state, rawGrade) ==
    LET normalizedGrade == ClampToCoreBounds(rawGrade)
        isApplied == zoneId \in W.occupied
        keys == DOMAIN W.la \cup {zoneId}
    IN [W EXCEPT
          !.la = [k \in keys |-> LastApplied(state, normalizedGrade)],
          !.sent = Append(@, [zone |-> zoneId, state |-> state,
                              grade |-> normalizedGrade, applied |-> isApplied])]

\* Variant that records last-applied only for a delivered packet.
PushWeatherToClient_IfDelivered(W, zoneId, state, rawGrade) ==
    LET normalizedGrade == ClampToCoreBounds(rawGrade)
        isApplied == zoneId \in W.occupied
        keys == DOMAIN W.la \cup (IF isApplied THEN {zoneId} ELSE {})
    IN [W EXCEPT
          !.la = [k \in keys |-> IF k = zoneId /\ isApplied
                                   THEN LastApplied(state, normalizedGrade)
                                   ELSE W.la[k]],
          !.sent = Append(@, [zone |-> zoneId, state |-> state,
                              grade |-> normalizedGrade, applied |-> isApplied])]

PushWeatherToClient(W, zoneId, state, rawGrade) ==
    LET normalizedGrade == ClampToCoreBounds(rawGrade)
        isApplied == zoneId \in W.occupied
        keys == DOMAIN W.la \cup {zoneId}
    IN [W EXCEPT
          !.la = [k \in keys |-> IF k = zoneId
                                   THEN LastApplied(state, normalizedGrade)
                                   ELSE W.la[k]],
          !.sent = Append(@, [zone |-> zoneId, state |-> state,
                              grade |-> normalizedGrade, applied |-> isApplied])]

Called(fn, z, W0, W1) ==
    [W1 EXCEPT !.calls = Append(@,
        [fn |-> fn, zone |-> z, pre |-> W0.rt[z], post |-> W1.rt[z],
         sent |-> SubSeq(W1.sent, Len(W0.sent) + 1, Len(W1.sent))])]

\* ------------------------------------------------------ weighted selector
\* Variant without repeat exclusion: every positive-weight entry stays.
PickPool_NoExclusion(entries, rpt, repeatMax) ==
    SelectSeq(entries, LAMBDA e : e.weight > 0)

\* Variant that leaves the disabled (weight 0) entries in the pool.
PickPool_KeepsDisabled(entries, rpt, repeatMax) ==
    SelectSeq(entries, LAMBDA e :
        e.weight >= 0 /\ ~(rpt.repeats >= repeatMax /\ e.state = rpt.lastPicked))

\* Variant that excludes the repeated state one pick too late.
PickPool_LateExclusion(entries, rpt, repeatMax) ==
    SelectSeq(entries, LAMBDA e :
        e.weight > 0 /\ ~(rpt.repeats > repeatMax /\ e.state = rpt.lastPicked))

\* The pool WeightedPick builds: positive weight, minus the over-repeated state.
PickPool(entries, rpt, repeatMax) ==
    SelectSeq(entries, LAMBDA e :
        e.weight > 0 /\ ~(rpt.repeats >= repeatMax /\ e.state = rpt.lastPicked))

RECURSIVE SumWeights(_, _)
SumWeights(pool, i) ==
    IF i > Len(pool) THEN 0 ELSE pool[i].weight + SumWeights(pool, i + 1)

\* The walk "if ((r -= it.w) <= 0) return it.st", r scaled by One.
RECURSIVE PickWalk(_, _, _)
PickWalk(pool, r, i) ==
    IF i > Len(pool) THEN pool[Len(pool)].state
    ELSE IF r - pool[i].weight * One <= 0 THEN pool[i].state
    ELSE PickWalk(pool, r - pool[i].weight * One, i + 1)

\* Variant that falls back to the calm state when the pool is empty.
WeightedPick_CalmDefault(entries, rpt, repeatMax, u) ==
    LET pool == SelectSeq(entries, LAMBDA e :
                    e.weight > 0 /\ ~(rpt.repeats >= repeatMax /\ e.state = rpt.lastPicked))
    IN IF pool = <<>> THEN WEATHER_STATE_FINE
       ELSE PickWalk(pool, u * SumWeights(pool, 1), 1)

\* u is the RandUnit() draw (unused when the pool is empty).
WeightedPick(entries, rpt, repeatMax, u) ==
    LET pool == PickPool(entries, rpt, repeatMax)
    IN IF pool = <<>> THEN rpt.lastPicked
       ELSE PickWalk(pool, u * SumWeights(pool, 1), 1)

\* ----------------------------------------------------- transition planner
\* (delta <= 0) ? 0 : int(ceil(delta / g_FadeStepValue))
StepsFor(delta, step) == IF delta <= 0 THEN 0 ELSE CeilDiv(delta, step)

\* pct01 rolled inside the entry's band with the RandUnit() draw u.
RollPct01(entry, u) ==
    Clamp((entry.minPct * One + (entry.maxPct - entry.minPct) * u) \div 100, 0, One)

\* Variant that starts the count afresh at every plan.
UpdateRepeat_AlwaysOne(rpt, pick) == RepeatState(pick, 1)

\* "Update repeat tracking" at the end of a subsequent plan.
UpdateRepeat(rpt, pick) ==
    IF pick = rpt.lastPicked THEN RepeatState(rpt.lastPicked, rpt.repeats + 1)
    ELSE RepeatState(pick, 1)

\* Variant that starts a fresh zone at the top of the band.
FirstPushGrade_BandMax(newRange) == ClampToCoreBounds(newRange.max)

\* The grade the first run pushes: the new state's MIN, inside core bounds.
FirstPushGrade(newRange) == ClampToCoreBounds(newRange.min)

\* First run: push the pick at MIN, plan a fade-in only.
PlanFirstRun(E, W, z, entry, pick, apex, stepDur, dwellDur) ==
    LET newRange == GetRange(E, E.dp, pick)
        g0 == FirstPushGrade(newRange)
        rt1 == [W.rt[z] EXCEPT !.nextState = pick, !.apexTarget = apex,
                               !.fadeInStart = newRange.min,
                               !.currentState = pick, !.currentGrade = g0]
        W1 == PushWeatherToClient([W EXCEPT !.rt[z] = rt1], z, pick, g0)
        nIn == StepsFor(Max(0, apex - g0), E.step)
    IN [W1 EXCEPT !.rt[z] =
          [rt1 EXCEPT !.fadeOutStepsLeft = 0,
                      !.fadeInStepsLeft = nIn,
                      !.phase = IF nIn > 0 THEN "FadeIn" ELSE "Dwell",
                      !.stepRemainingMs = IF nIn > 0 THEN stepDur ELSE @,
                      !.phaseRemainingMs = IF nIn > 0 THEN @ ELSE dwellDur,
                      !.rpt = RepeatState(pick, 1),
                      !.initialized = TRUE]]

\* Case 1: same state, apex above current: fade-in only.
PlanSameUp(E, rt, newRange, stepDur, dwellDur) ==
    LET nIn == StepsFor(Max(0, rt.apexTarget - Max(rt.currentGrade, newRange.min)),
                        E.step)
    IN [rt EXCEPT !.fadeOutStepsLeft = 0,
                  !.fadeInStepsLeft = nIn,
                  !.phase = IF nIn > 0 THEN "FadeIn" ELSE "Dwell",
                  !.stepRemainingMs = IF nIn > 0 THEN stepDur ELSE @,
                  !.phaseRemainingMs = IF nIn > 0 THEN @ ELSE dwellDur]

\* Variant that goes down to the band minimum and back up to the apex.
PlanSameDown_ViaMin(E, rt, stepDur, dwellDur) ==
    LET nOut == StepsFor(Max(0, rt.currentGrade - rt.fadeInStart), E.step)
        nIn == StepsFor(Max(0, rt.apexTarget - rt.fadeInStart), E.step)
    IN [rt EXCEPT !.fadeOutStart = rt.currentGrade,
                  !.fadeOutTarget = rt.fadeInStart,
                  !.fadeOutStepsLeft = nOut,
                  !.fadeInStepsLeft = nIn,
                  !.phase = IF nOut > 0 THEN "FadeOut" ELSE "Dwell",
                  !.stepRemainingMs = IF nOut > 0 THEN stepDur ELSE @,
                  !.phaseRemainingMs = IF nOut > 0 THEN @ ELSE dwellDur]

\* Case 2: same state, apex below current: fade-out only, to the apex.
PlanSameDown(E, rt, stepDur, dwellDur) ==
    LET nOut == StepsFor(Max(0, rt.currentGrade - rt.apexTarget), E.step)
    IN [rt EXCEPT !.fadeOutStart = rt.currentGrade,
                  !.fadeOutTarget = rt.apexTarget,
                  !.fadeOutStepsLeft = nOut,
                  !.fadeInStepsLeft = 0,
                  !.phase = IF nOut > 0 THEN "FadeOut" ELSE "Dwell",
                  !.stepRemainingMs = IF nOut > 0 THEN stepDur ELSE @,
                  !.phaseRemainingMs = IF nOut > 0 THEN @ ELSE dwellDur]

\* Variant that looks at the fade-in count before the fade-out count.
PlanDifferent_FadeInFirst(E, rt, newRange, curRange, stepDur, dwellDur) ==
    LET nOut == StepsFor(Max(0, curRange.max - newRange.min), E.step)
        nIn == StepsFor(Max(0, rt.apexTarget - newRange.min), E.step)
    IN [rt EXCEPT !.fadeOutStart = curRange.max,
                  !.fadeOutTarget = newRange.min,
                  !.fadeOutStepsLeft = nOut,
                  !.fadeInStepsLeft = nIn,
                  !.phase = IF nIn > 0 THEN "FadeIn"
                            ELSE IF nOut > 0 THEN "FadeOut" ELSE "Dwell",
                  !.stepRemainingMs = IF nOut > 0 \/ nIn > 0 THEN stepDur ELSE @,
                  !.phaseRemainingMs = IF nOut > 0 \/ nIn > 0 THEN @ ELSE dwellDur]

\* Case 3 (the else branch): old MAX down to new MIN, then up to the apex.
PlanDifferent(E, rt, newRange, curRange, stepDur, dwellDur) ==
    LET nOut == StepsFor(Max(0, curRange.max - newRange.min), E.step)
        nIn == StepsFor(Max(0, rt.apexTarget - newRange.min), E.step)
    IN [rt EXCEPT !.fadeOutStart = curRange.max,
                  !.fadeOutTarget = newRange.min,
                  !.fadeOutStepsLeft = nOut,
                  !.fadeInStepsLeft = nIn,
                  !.phase = IF nOut > 0 THEN "FadeOut"
                            ELSE IF nIn > 0 THEN "FadeIn" ELSE "Dwell",
                  !.stepRemainingMs = IF nOut > 0 \/ nIn > 0 THEN stepDur ELSE @,
                  !.phaseRemainingMs = IF nOut > 0 \/ nIn > 0 THEN @ ELSE dwellDur]

\* Which of the three subsequent-run branches is taken.
PlanCase(rt, pick, apex) ==
    IF pick = rt.currentState /\ apex > rt.currentGrade + kEps THEN "up"
    ELSE IF pick = rt.currentState /\ apex < rt.currentGrade - kEps THEN "down"
    ELSE "different"

PlanSubsequent(E, W, z, entry, pick, apex, stepDur, dwellDur) ==
    LET rt == W.rt[z]
        newRange == GetRange(E, E.dp, pick)
        curRange == GetRange(E, E.dp, rt.currentState)
        rt1 == [rt EXCEPT !.nextState = pick, !.apexTarget = apex,
                          !.fadeInStart = newRange.min]
        which == PlanCase(rt, pick, apex)
        rt2 == IF which = "up" THEN PlanSameUp(E, rt1, newRange, stepDur, dwellDur)
               ELSE IF which = "down" THEN PlanSameDown(E, rt1, stepDur, dwellDur)
               ELSE PlanDifferent(E, rt1, newRange, curRange, stepDur, dwellDur)
    IN [W EXCEPT !.rt[z] = [rt2 EXCEPT !.rpt = UpdateRepeat(rt.rpt, pick)]]

\* The planner after the pick: every outcome of the remaining draws.
PlanPicked(E, W, z, entries, pick) ==
    LET found == FindEntry(entries, pick)
    IN IF found = <<>> THEN {[W EXCEPT !.rt[z].phase = "Idle"]}
       ELSE LET entry == found[1]
            IN {IF W.rt[z].initialized
                  THEN PlanSubsequent(E, W, z, entry, pick,
                          ApexFromPct(E, E.dp, pick, RollPct01(entry, u)), sd, dd)
                  ELSE PlanFirstRun(E, W, z, entry, pick,
                          ApexFromPct(E, E.dp, pick, RollPct01(entry, u)), sd, dd) :
                u \in RandUnitDraws,
                sd \in RandDuration(E.stepMin, E.stepMax),
                dd \in RandDuration(entry.dwellMinSec, entry.dwellMaxSec)}

\* Variant that clears the zone's weather when the bucket has no candidate.
PlanNewEffect_ForcedReset(E, W, z) ==
    LET entries == GetZoneDaypart(E, z, E.dp)
        out == IF entries = <<>> \/ ~HasAnyActive(entries)
                 THEN {[W EXCEPT !.rt[z].phase = "Idle",
                                 !.rt[z].currentState = WEATHER_STATE_FINE,
                                 !.rt[z].currentGrade = 0]}
                 ELSE UNION {PlanPicked(E, W, z, entries,
                                WeightedPick(entries, W.rt[z].rpt, E.repeatMax, u)) :
                             u \in RandUnitDraws}
    IN {Called("PlanNewEffect", z, W, W1) : W1 \in out}

\* The set of worlds PlanNewEffect(rt) can leave, one per outcome of its draws.
PlanNewEffect(E, W, z) ==
    LET entries == GetZoneDaypart(E, z, E.dp)
        out == IF entries = <<>> \/ ~HasAnyActive(entries)
                 THEN {[W EXCEPT !.rt[z].phase = "Idle"]}
                 ELSE UNION {PlanPicked(E, W, z, entries,
                                WeightedPick(entries, W.rt[z].rpt, E.repeatMax, u)) :
                             u \in RandUnitDraws}
    IN {Called("PlanNewEffect", z, W, W1) : W1 \in out}


\* ---------------------------------------------------------- fade executor
\* next = max(fadeOutTarget, currentGrade - g_FadeStepValue)
FadeOutNext(rt, step) == Max(rt.fadeOutTarget, rt.currentGrade - step)

\* Variant without the cap at the apex.
FadeInNext_NoCap(rt, step) == Max(rt.currentGrade, rt.fadeInStart) + step

\* base = max(currentGrade, fadeInStart); next = min(apexTarget, base + step)
FadeInNext(rt, step) == Min(rt.apexTarget, Max(rt.currentGrade, rt.fadeInStart) + step)

\* Variant that gives the zone a short dwell when there is no fade-in.
FadeOutDone_ShortDwell(W, z, stepDur) ==
    LET rt == W.rt[z]
    IN IF rt.fadeInStepsLeft > 0
         THEN LET g == ClampToCoreBounds(rt.fadeInStart)
                  rt1 == [rt EXCEPT !.currentState = rt.nextState, !.currentGrade = g]
                  W1 == PushWeatherToClient([W EXCEPT !.rt[z] = rt1], z,
                                            rt1.currentState, g)
              IN [W1 EXCEPT !.rt[z].phase = "FadeIn",
                            !.rt[z].stepRemainingMs = stepDur]
         ELSE [W EXCEPT !.rt[z].phase = "Dwell", !.rt[z].stepRemainingMs = 0,
                        !.rt[z].phaseRemainingMs = 5000]

\* The end of a fade-out (both places of AdvanceFadeOut): flip to the new
\* state at MIN and enter FadeIn, or enter Dwell.
FadeOutDone(W, z, stepDur) ==
    LET rt == W.rt[z]
    IN IF rt.fadeInStepsLeft > 0
         THEN LET g == ClampToCoreBounds(rt.fadeInStart)
                  rt1 == [rt EXCEPT !.currentState = rt.nextState, !.currentGrade = g]
                  W1 == PushWeatherToClient([W EXCEPT !.rt[z] = rt1], z,
                                            rt1.currentState, g)
              IN [W1 EXCEPT !.rt[z].phase = "FadeIn",
                            !.rt[z].stepRemainingMs = stepDur]
         ELSE [W EXCEPT !.rt[z].phase = "Dwell", !.rt[z].stepRemainingMs = 0]

\* Variant that leaves the hand-over to the next invocation of the executor.
FadeOutStep_NoCascade(E, W, z, stepDur) ==
    LET rt == W.rt[z]
        g == ClampToCoreBounds(FadeOutNext(rt, E.step))
        W1 == PushWeatherToClient([W EXCEPT !.rt[z].currentGrade = g], z,
                                  rt.currentState, g)
    IN [W1 EXCEPT !.rt[z].fadeOutStepsLeft = @ - 1,
                  !.rt[z].stepRemainingMs = stepDur]

FadeOutStep(E, W, z, stepDur) ==
    LET rt == W.rt[z]
        g == ClampToCoreBounds(FadeOutNext(rt, E.step))
        W1 == PushWeatherToClient([W EXCEPT !.rt[z].currentGrade = g], z,
                                  rt.currentState, g)
        W2 == [W1 EXCEPT !.rt[z].fadeOutStepsLeft = @ - 1,
                         !.rt[z].stepRemainingMs = stepDur]
    IN IF W2.rt[z].fadeOutStepsLeft <= 0 THEN FadeOutDone(W2, z, stepDur) ELSE W2

AdvanceFadeOut(E, W, z) ==
    LET out == {IF W.rt[z].fadeOutStepsLeft <= 0
                  THEN FadeOutDone(W, z, sd)
                  ELSE FadeOutStep(E, W, z, sd) :
                sd \in RandDuration(E.stepMin, E.stepMax)}
    IN {Called("AdvanceFadeOut", z, W, W1) : W1 \in out}

\* Variant that always takes the short default dwell.
LandingDwell_Default(E, rt) == {5000}

\* The dwell AdvanceFadeIn rolls when the fade-in lands.
LandingDwell(E, rt) ==
    LET entries == GetZoneDaypart(E, rt.zoneId, E.dp)
        found == IF entries = <<>> THEN <<>> ELSE FindEntry(entries, rt.currentState)
    IN IF found = <<>> THEN {5000}
       ELSE RandDuration(found[1].dwellMinSec, found[1].dwellMaxSec)

\* Variant that takes full steps and lands without snapping to the apex.
FadeInStep_FullSteps(E, W, z, stepDur, dwellDur) ==
    LET rt == W.rt[z]
        g == ClampToCoreBounds(Max(rt.currentGrade, rt.fadeInStart) + E.step)
        W1 == PushWeatherToClient([W EXCEPT !.rt[z].currentGrade = g], z,
                                  rt.currentState, g)
        left == rt.fadeInStepsLeft - 1
        W2 == [W1 EXCEPT !.rt[z].fadeInStepsLeft = left,
                         !.rt[z].stepRemainingMs = IF left > 0 THEN stepDur ELSE 0]
    IN IF left <= 0
         THEN [W2 EXCEPT !.rt[z].phaseRemainingMs = dwellDur,
                         !.rt[z].phase = "Dwell"]
         ELSE W2

FadeInStep(E, W, z, stepDur, dwellDur) ==
    LET rt == W.rt[z]
        g == ClampToCoreBounds(FadeInNext(rt, E.step))
        W1 == PushWeatherToClient([W EXCEPT !.rt[z].currentGrade = g], z,
                                  rt.currentState, g)
        left == rt.fadeInStepsLeft - 1
        W2 == [W1 EXCEPT !.rt[z].fadeInStepsLeft = left,
                         !.rt[z].stepRemainingMs = IF left > 0 THEN stepDur ELSE 0]
    IN IF left <= 0
         THEN LET a == ClampToCoreBounds(rt.apexTarget)
                  W3 == PushWeatherToClient([W2 EXCEPT !.rt[z].currentGrade = a], z,
                                            rt.currentState, a)
              IN [W3 EXCEPT !.rt[z].phaseRemainingMs = dwellDur,
                            !.rt[z].phase = "Dwell"]
         ELSE W2

AdvanceFadeIn(E, W, z) ==
    LET out == IF W.rt[z].fadeInStepsLeft <= 0 THEN {W}
               ELSE {FadeInStep(E, W, z, sd, dd) :
                     sd \in RandDuration(E.stepMin, E.stepMax),
                     dd \in LandingDwell(E, W.rt[z])}
    IN {Called("AdvanceFadeIn", z, W, W1) : W1 \in out}

\* ------------------------------------------------------------ dwell timer
\* Variant that lets a dwell run down to exactly zero before it plans.
AdvanceDwell_LateExpiry(E, W, z, diffMs) ==
    LET out == IF W.rt[z].phaseRemainingMs >= diffMs
                 THEN {[W EXCEPT !.rt[z].phaseRemainingMs = @ - diffMs]}
                 ELSE PlanNewEffect(E, [W EXCEPT !.rt[z].phaseRemainingMs = 0], z)
    IN {Called("AdvanceDwell", z, W, W1) : W1 \in out}

AdvanceDwell(E, W, z, diffMs) ==
    LET out == IF W.rt[z].phaseRemainingMs > diffMs
                 THEN {[W EXCEPT !.rt[z].phaseRemainingMs = @ - diffMs]}
                 ELSE PlanNewEffect(E, [W EXCEPT !.rt[z].phaseRemainingMs = 0], z)
    IN {Called("AdvanceDwell", z, W, W1) : W1 \in out}

\* Variant that resets only a dwelling zone.
ResetRepeatsOnContextChange_DwellOnly(rt, oldDp, newDp) ==
    IF oldDp # newDp /\ rt.phase = "Dwell"
      THEN [rt EXCEPT !.rpt = RepeatState(WEATHER_STATE_FINE, 0)]
      ELSE rt

\* -------------------------------------------------------- scheduler loop
ResetRepeatsOnContextChange(rt, oldDp, newDp) ==
    IF oldDp # newDp
      THEN [rt EXCEPT !.rpt = RepeatState(WEATHER_STATE_FINE, 0)]
      ELSE rt

IntervalMs(E) == IF E.intervalSec * 1000 = 0 THEN 1000 ELSE E.intervalSec * 1000

\* Variant in which the step timer never runs down.
StepTimerTick_Frozen(ms, intervalMs) == ms

\* "step timers (fade step pacing)" at the head of a processed interval.
StepTimerTick(ms, intervalMs) ==
    IF ms > 0 THEN (IF ms > intervalMs THEN ms - intervalMs ELSE 0) ELSE ms

\* Variant that runs the executor at every interval, step timer or not.
Dispatch_Unpaced(E, W, z) ==
    LET rt == W.rt[z]
    IN IF rt.phase = "Idle" THEN PlanNewEffect(E, W, z)
       ELSE IF rt.phase = "FadeOut" THEN AdvanceFadeOut(E, W, z)
       ELSE IF rt.phase = "FadeIn" THEN AdvanceFadeIn(E, W, z)
       ELSE AdvanceDwell(E, W, z, IntervalMs(E))

\* Variant in which an Idle zone is left alone.
Dispatch_IdleSleeps(E, W, z) ==
    LET rt == W.rt[z]
    IN IF rt.phase = "Idle" THEN {W}
       ELSE IF rt.phase = "FadeOut"
         THEN (IF rt.stepRemainingMs = 0 THEN AdvanceFadeOut(E, W, z) ELSE {W})
       ELSE IF rt.phase = "FadeIn"
         THEN (IF rt.stepRemainingMs = 0 THEN AdvanceFadeIn(E, W, z) ELSE {W})
       ELSE AdvanceDwell(E, W, z, IntervalMs(E))

\* The dispatch by phase of one processed interval.
Dispatch(E, W, z) ==
    LET rt == W.rt[z]
    IN IF rt.phase = "Idle" THEN PlanNewEffect(E, W, z)
       ELSE IF rt.phase = "FadeOut"
         THEN (IF rt.stepRemainingMs = 0 THEN AdvanceFadeOut(E, W, z) ELSE {W})
       ELSE IF rt.phase = "FadeIn"
         THEN (IF rt.stepRemainingMs = 0 THEN AdvanceFadeIn(E, W, z) ELSE {W})
       ELSE AdvanceDwell(E, W, z, IntervalMs(E))

\* Variant that processes at most one interval per tick.
IntervalLoop_OnePerTick(E, W, z) ==
    IF W.rt[z].msAccumulator >= IntervalMs(E)
      THEN Dispatch(E, [W EXCEPT
                          !.rt[z].msAccumulator = @ - IntervalMs(E),
                          !.rt[z].stepRemainingMs = StepTimerTick(@, IntervalMs(E))], z)
      ELSE {W}

\* while (rt.msAccumulator >= intervalMs) { ... }
RECURSIVE IntervalLoop(_, _, _)
IntervalLoop(E, W, z) ==
    IF W.rt[z].msAccumulator >= IntervalMs(E)
      THEN LET W1 == [W EXCEPT
                        !.rt[z].msAccumulator = @ - IntervalMs(E),
                        !.rt[z].stepRemainingMs = StepTimerTick(@, IntervalMs(E))]
           IN UNION {IntervalLoop(E, W2, z) : W2 \in Dispatch(E, W1, z)}
      ELSE {W}

\* Variant that drops the whole offset at the first tick.
StaggerLeft_Dropped(offsetMs, diffMs) == 0

\* What is left of the stagger offset after this tick.
StaggerLeft(offsetMs, diffMs) ==
    IF offsetMs > 0 THEN offsetMs - Min(offsetMs, diffMs) ELSE offsetMs

\* The body of SchedulerUpdate's loop for one zone.
UpdateZone(E, lastDp, diffMs, W, z) ==
    LET left == StaggerLeft(W.rt[z].zoneOffsetMs, diffMs)
        W1 == [W EXCEPT !.rt[z].zoneOffsetMs = left]
    IN IF left > 0 THEN {W1}
       ELSE LET W2 == Called("ResetRepeatsOnContextChange", z, W1,
                        [W1 EXCEPT !.rt[z] =
                            ResetRepeatsOnContextChange(W1.rt[z], lastDp, E.dp)])
                W3 == [W2 EXCEPT !.rt[z].msAccumulator = @ + diffMs]
            IN IntervalLoop(E, W3, z)

\* for (auto& kv : g_Runtime), zones taken in ascending id.
RECURSIVE UpdateZones(_, _, _, _, _)
UpdateZones(E, lastDp, diffMs, Ws, todo) ==
    IF todo = {} THEN Ws
    ELSE LET z == CHOOSE x \in todo : \A y \in todo : x <= y
         IN UpdateZones(E, lastDp, diffMs,
                UNION {UpdateZone(E, lastDp, diffMs, W, z) : W \in Ws},
                todo \ {z})


\* ---------------------------------------------------------- configuration
\* A configuration file, already scanned into numbers:
\*   zoneList    WeatherVibe.Zone.List
\*   zones       dp -> zone -> <<state, weight, min%, max%, minDwell, maxDwell>>*
\*               (in the order of AllStatesList)
\*   ranges      dp -> state -> <<a, b>>  (WeatherVibe.Intensity.InternalRange)
\*   the engine knobs of LoadEngineGlobals.

\* One candidate, band [50,50], no afternoon profile, default ranges.
FileSingle ==
    [zoneList |-> {1},
     zones |-> [dp \in DayParts |->
                  IF dp = "MORNING"
                    THEN (1 :> << <<WEATHER_STATE_FOG, 1, 50, 50, 2, 2>> >>)
                    ELSE <<>>],
     ranges |-> [dp \in DayParts |-> <<>>],
     intervalSec |-> 1, repeatMax |-> 2, stepValue |-> 2000,
     stepMin |-> 1, stepMax |-> 1, spread |-> 2]

\* Two equal-weight candidates and a disabled one in the morning; adjoining
\* bands (Fine tops out where Fog starts); one candidate in the afternoon,
\* given with inverted bands, and narrower afternoon ranges.
FilePair ==
    [zoneList |-> {1},
     zones |-> [dp \in DayParts |->
                  IF dp = "MORNING"
                    THEN (1 :> << <<WEATHER_STATE_FINE, 1, 0, 100, 1, 1>>,
                                  <<WEATHER_STATE_FOG, 1, 0, 100, 1, 2>>,
                                  <<WEATHER_STATE_LIGHT_RAIN, 0, 0, 100, 1, 1>> >>)
                    ELSE (1 :> << <<WEATHER_STATE_FINE, 2, 100, 50, 0, 1>> >>)],
     ranges |-> [dp \in DayParts |->
                  IF dp = "MORNING"
                    THEN (WEATHER_STATE_FINE :> <<0, 3000>>)
                         @@ (WEATHER_STATE_FOG :> <<3000, 10000>>)
                    ELSE (WEATHER_STATE_FINE :> <<4000, 1000>>)
                         @@ (WEATHER_STATE_FOG :> <<2000, 6000>>)],
     intervalSec |-> 1, repeatMax |-> 2, stepValue |-> 4000,
     stepMin |-> 2, stepMax |-> 2, spread |-> 1]

\* Only a disabled candidate in the morning; in the afternoon one candidate
\* whose range is given above 1 and so is clamped to the point [1,1].  The
\* interval is given as 0.
FileEdge ==
    [zoneList |-> {1},
     zones |-> [dp \in DayParts |->
                  IF dp = "MORNING"
                    THEN (1 :> << <<WEATHER_STATE_LIGHT_RAIN, 0, 0, 100, 1, 1>> >>)
                    ELSE (1 :> << <<WEATHER_STATE_LIGHT_RAIN, 1, 0, 0, 1, 1>> >>)],
     ranges |-> [dp \in DayParts |->
                  IF dp = "MORNING" THEN <<>>
                  ELSE (WEATHER_STATE_LIGHT_RAIN :> <<10000, 12000>>)],
     intervalSec |-> 0, repeatMax |-> 1, stepValue |-> 4000,
     stepMin |-> 1, stepMax |-> 1, spread |-> 0]

\* The files the scheduler is run with.
ConfigFiles == {FileSingle, FilePair, FileEdge}

\* The file the scheduler is run with while an operator issues manual
\* commands: one candidate whose apex may be the top of the default range.
FileConsole ==
    [zoneList |-> {1},
     zones |-> [dp \in DayParts |->
                  (1 :> << <<WEATHER_STATE_FOG, 1, 50, 100, 1, 1>> >>)],
     ranges |-> [dp \in DayParts |-> <<>>],
     intervalSec |-> 1, repeatMax |-> 2, stepValue |-> 4000,
     stepMin |-> 1, stepMax |-> 1, spread |-> 1]

ConsoleFiles == {FileConsole}

\* Two managed zones: zone 1 has a candidate in both day parts, zone 2 only
\* in the morning, listed after a disabled one.
FileZones ==
    [zoneList |-> {1, 2},
     zones |-> [dp \in DayParts |->
                  IF dp = "MORNING"
                    THEN (1 :> << <<WEATHER_STATE_FOG, 1, 50, 50, 1, 1>> >>)
                         @@ (2 :> << <<WEATHER_STATE_FINE, 0, 0, 100, 1, 1>>,
                                     <<WEATHER_STATE_FOG, 1, 0, 100, 1, 1>> >>)
                    ELSE (1 :> << <<WEATHER_STATE_FOG, 1, 50, 50, 1, 1>> >>)],
     ranges |-> [dp \in DayParts |-> <<>>],
     intervalSec |-> 1, repeatMax |-> 2, stepValue |-> 4000,
     stepMin |-> 1, stepMax |-> 1, spread |-> 1]

\* The same list of zones, but zone 2 has lost all its candidate entries.
FileZoneDropped ==
    [zoneList |-> {1, 2},
     zones |-> [dp \in DayParts |->
                  (1 :> << <<WEATHER_STATE_FOG, 1, 50, 50, 1, 1>> >>)],
     ranges |-> [dp \in DayParts |-> <<>>],
     intervalSec |-> 1, repeatMax |-> 2, stepValue |-> 4000,
     stepMin |-> 1, stepMax |-> 1, spread |-> 0]

ZoneFiles == {FileZones, FileZoneDropped}

\* Two candidates in each day part, so that every bucket always has a
\* positive-weight candidate and a second one to turn to.
FileBothParts ==
    [zoneList |-> {1},
     zones |-> [dp \in DayParts |->
                  IF dp = "MORNING"
                    THEN (1 :> << <<WEATHER_STATE_FINE, 1, 0, 100, 1, 1>>,
                                  <<WEATHER_STATE_FOG, 1, 50, 50, 1, 2>> >>)
                    ELSE (1 :> << <<WEATHER_STATE_FOG, 1, 50, 50, 1, 1>>,
                                  <<WEATHER_STATE_LIGHT_RAIN, 2, 100, 100, 1, 1>> >>)],
     ranges |-> [dp \in DayParts |->
                  IF dp = "MORNING"
                    THEN (WEATHER_STATE_FINE :> <<0, 3000>>)
                         @@ (WEATHER_STATE_FOG :> <<3000, 10000>>)
                    ELSE (WEATHER_STATE_FOG :> <<2000, 6000>>)],
     intervalSec |-> 1, repeatMax |-> 2, stepValue |-> 4000,
     stepMin |-> 1, stepMax |-> 1, spread |-> 1]

\* The same candidates with a repeat ceiling of 1: no effect twice in a row.
FileNoRepeat == [FileBothParts EXCEPT !.repeatMax = 1]

ProgressFiles == {FileBothParts, FileNoRepeat}

LoadStateRanges(file) ==
    [dp \in DayParts |->
        [ws \in kAcceptedStates |->
            IF ws \in DOMAIN file.ranges[dp]
              THEN ParseRangePair(file.ranges[dp][ws])
              ELSE Range(3000, One)]]

ParsedEntries(raws) == [i \in 1..Len(raws) |-> ParseZoneEntry(raws[i])]

\* The zones of the list that end up with entries in day part dp.
ZonesWithEntries(file, dp) ==
    {z \in file.zoneList : z \in DOMAIN file.zones[dp] /\ file.zones[dp][z] # <<>>}

LoadZoneModel(file) ==
    [dp \in DayParts |->
        [z \in ZonesWithEntries(file, dp) |-> ParsedEntries(file.zones[dp][z])]]

ZoneHasProfile(model, zoneId) == \E dp \in DayParts : zoneId \in DOMAIN model[dp]

\* The stagger offsets LoadZoneModels may draw for the zones it seeds.
StaggerDraws(file) ==
    [{z \in file.zoneList : ZoneHasProfile(LoadZoneModel(file), z)} ->
        {x * 1000 : x \in RandIn(0, file.spread)}]

SeedRuntime(offsets) == [z \in DOMAIN offsets |-> ZoneRuntime(z, offsets[z])]

\* LoadEngineGlobals' clamps.
LoadStepValue(file) == Max(5, Min(5000, file.stepValue))
LoadStepMax(file) == Max(file.stepMin, file.stepMax)

Env(dp, model, ranges, intervalSec, repeatMax, step, stepMin, stepMax) ==
    [dp |-> dp, model |-> model, ranges |-> ranges, intervalSec |-> intervalSec,
     repeatMax |-> repeatMax, step |-> step, stepMin |-> stepMin, stepMax |-> stepMax]

FileEnv(file, dp) ==
    Env(dp, LoadZoneModel(file), LoadStateRanges(file), file.intervalSec,
        file.repeatMax, LoadStepValue(file), file.stepMin, LoadStepMax(file))

\* ------------------------------------------------------------------ state
VARIABLES
    started,            \* OnStartup has run
    dayPart,            \* what GetCurrentDayPart() returns now
    g_EnableModule,
    g_IntervalSec, g_RepeatMax, g_FadeStepValue,
    g_FadeStepMinSec, g_FadeStepMaxSec, g_SchedulerSpreadMaxOffsetSec,
    g_StateRanges, g_ZoneModel,
    g_LastApplied, g_Runtime,
    s_LastDp,           \* SchedulerUpdate's function-local static
    occupied,           \* the zones in which a session is present
    lastOp,             \* the operation that led here, its inputs and result
    sent,               \* the packets it handed to the sink
    calls               \* the planner / executor / timer calls it made

globals == <<g_IntervalSec, g_RepeatMax, g_FadeStepValue, g_FadeStepMinSec,
             g_FadeStepMaxSec, g_SchedulerSpreadMaxOffsetSec, g_StateRanges,
             g_ZoneModel>>

vars == <<started, dayPart, g_EnableModule, globals, g_LastApplied, g_Runtime,
          s_LastDp, occupied, lastOp, sent, calls>>

CurEnv ==
    Env(dayPart, g_ZoneModel, g_StateRanges, g_IntervalSec, g_RepeatMax,
        g_FadeStepValue, g_FadeStepMinSec, g_FadeStepMaxSec)

Op(name, zone, arg, ok) == [name |-> name, zone |-> zone, arg |-> arg, ok |-> ok]

World(rt, la) ==
    [rt |-> rt, la |-> la, sent |-> <<>>, calls |-> <<>>, occupied |-> occupied]

WithinBounds(W) == \A z \in DOMAIN W.rt : W.rt[z].rpt.repeats <= MaxRepeats

Init ==
    /\ started = FALSE
    /\ dayPart \in DayParts
    /\ g_EnableModule = TRUE
    /\ g_IntervalSec = 10
    /\ g_RepeatMax = 2
    /\ g_FadeStepValue = 500
    /\ g_FadeStepMinSec = 30
    /\ g_FadeStepMaxSec = 40
    /\ g_SchedulerSpreadMaxOffsetSec = 120
    /\ g_StateRanges = [dp \in DayParts |-> <<>>]
    /\ g_ZoneModel = [dp \in DayParts |-> <<>>]
    /\ g_LastApplied = <<>>
    /\ g_Runtime = <<>>
    /\ s_LastDp = NoDp
    /\ occupied = {}
    /\ lastOp = Op("none", 0, 0, TRUE)
    /\ sent = <<>>
    /\ calls = <<>>

\* ------------------------------------------------------------- operations
\* WeatherVibe_LoadAllConfig: the globals after loading `file`.
LoadAllConfig(file) ==
    /\ g_IntervalSec' = file.intervalSec
    /\ g_RepeatMax' = file.repeatMax
    /\ g_FadeStepValue' = LoadStepValue(file)
    /\ g_FadeStepMinSec' = file.stepMin
    /\ g_FadeStepMaxSec' = LoadStepMax(file)
    /\ g_SchedulerSpreadMaxOffsetSec' = file.spread
    /\ g_StateRanges' = LoadStateRanges(file)
    /\ g_ZoneModel' = LoadZoneModel(file)

\* PlanNewEffect for every seeded zone, in ascending id.
RECURSIVE PlanAll(_, _, _)
PlanAll(E, Ws, todo) ==
    IF todo = {} THEN Ws
    ELSE LET z == CHOOSE x \in todo : \A y \in todo : x <= y
         IN PlanAll(E, UNION {PlanNewEffect(E, W, z) : W \in Ws}, todo \ {z})

\* WeatherVibe_WorldScript::OnStartup
OnStartup(file, enable) ==
    /\ ~started
    /\ started' = TRUE
    /\ g_EnableModule' = enable
    /\ UNCHANGED <<dayPart, s_LastDp, occupied>>
    /\ IF ~enable
         THEN /\ UNCHANGED <<globals, g_LastApplied, g_Runtime>>
              /\ lastOp' = Op("OnStartup", 0, 0, FALSE)
              /\ sent' = <<>>
              /\ calls' = <<>>
         ELSE /\ LoadAllConfig(file)
              /\ \E offsets \in StaggerDraws(file) :
                   \E W \in PlanAll(FileEnv(file, dayPart),
                                    {World(SeedRuntime(offsets), <<>>)},
                                    DOMAIN offsets) :
                     /\ WithinBounds(W)
                     /\ g_Runtime' = W.rt
                     /\ g_LastApplied' = W.la
                     /\ sent' = W.sent
                     /\ calls' = W.calls
              /\ lastOp' = Op("OnStartup", 0, 0, TRUE)

\* WeatherVibe_SchedulerWorldScript::OnUpdate -> SchedulerUpdate(diffMs)
SchedulerUpdate(diffMs) ==
    /\ started
    /\ g_EnableModule
    /\ LET lastDp == IF s_LastDp = NoDp THEN dayPart ELSE s_LastDp
       IN \E W \in UpdateZones(CurEnv, lastDp, diffMs,
                               {World(g_Runtime, g_LastApplied)}, DOMAIN g_Runtime) :
            /\ WithinBounds(W)
            /\ g_Runtime' = W.rt
            /\ g_LastApplied' = W.la
            /\ sent' = W.sent
            /\ calls' = W.calls
    /\ s_LastDp' = dayPart
    /\ lastOp' = Op("SchedulerUpdate", 0, diffMs, TRUE)
    /\ UNCHANGED <<started, dayPart, g_EnableModule, globals, occupied>>

\* Variant that keeps the runtime of a zone that already has one.
HandleWvibeReload_KeepsRuntime(file) ==
    /\ started
    /\ UNCHANGED <<started, dayPart, g_EnableModule, s_LastDp, g_LastApplied, occupied>>
    /\ sent' = <<>>
    /\ calls' = <<>>
    /\ IF ~g_EnableModule
         THEN /\ UNCHANGED <<globals, g_Runtime>>
              /\ lastOp' = Op("HandleWvibeReload", 0, 0, FALSE)
         ELSE /\ LoadAllConfig(file)
              /\ \E offsets \in StaggerDraws(file) :
                   g_Runtime' = [z \in DOMAIN offsets |->
                                   IF z \in DOMAIN g_Runtime THEN g_Runtime[z]
                                   ELSE ZoneRuntime(z, offsets[z])]
              /\ lastOp' = Op("HandleWvibeReload", 0, 0, TRUE)

\* .wvibe reload
HandleWvibeReload(file) ==
    /\ started
    /\ UNCHANGED <<started, dayPart, g_EnableModule, s_LastDp, g_LastApplied, occupied>>
    /\ sent' = <<>>
    /\ calls' = <<>>
    /\ IF ~g_EnableModule
         THEN /\ UNCHANGED <<globals, g_Runtime>>
              /\ lastOp' = Op("HandleWvibeReload", 0, 0, FALSE)
         ELSE /\ LoadAllConfig(file)
              /\ \E offsets \in StaggerDraws(file) :
                   g_Runtime' = SeedRuntime(offsets)
              /\ lastOp' = Op("HandleWvibeReload", 0, 0, TRUE)

\* Inputs of the manual commands.
ManualStates == {WEATHER_STATE_FOG, 2}
ManualPercents == {150}
ManualGrades == {0 - 5000, 12000}

\* What a manual command does once it has its raw grade.
ManualPush(name, zoneId, stateVal, raw) ==
    /\ started
    /\ UNCHANGED <<started, dayPart, g_EnableModule, s_LastDp, globals, g_Runtime,
                   occupied>>
    /\ calls' = <<>>
    /\ IF ~g_EnableModule \/ ~IsValidWeatherState(stateVal)
         THEN /\ UNCHANGED g_LastApplied
              /\ sent' = <<>>
              /\ lastOp' = Op(name, zoneId, stateVal, FALSE)
         ELSE LET W == PushWeatherToClient(World(g_Runtime, g_LastApplied),
                                           zoneId, stateVal, raw)
              IN /\ g_LastApplied' = W.la
                 /\ sent' = W.sent
                 /\ lastOp' = Op(name, zoneId, stateVal, TRUE)

\* .wvibe set <zoneId> <state> <percentage>
HandleCommandPercent(zoneId, stateVal, percentage) ==
    ManualPush("HandleCommandPercent", zoneId, stateVal,
               MapPercentToRawGrade(CurEnv, dayPart, stateVal,
                                    (Clamp(percentage, 0, 100) * One) \div 100))

\* .wvibe setRaw <zoneId> <state> <raw>
HandleCommandRaw(zoneId, stateVal, grade) ==
    ManualPush("HandleCommandRaw", zoneId, stateVal, Clamp(grade, 0, One))

\* The wall clock crosses a day-part boundary.
DayPartChange ==
    /\ started
    /\ dayPart' \in DayParts \ {dayPart}
    /\ lastOp' = Op("clock", 0, 0, TRUE)
    /\ sent' = <<>>
    /\ calls' = <<>>
    /\ UNCHANGED <<started, g_EnableModule, globals, g_LastApplied, g_Runtime, s_LastDp,
                   occupied>>

\* Variant that resynchronizes every entering player with Fine at 0.
PushLastAppliedWeatherToClient_FineDefault(la, rt, zoneId) ==
    <<[zone |-> zoneId, state |-> WEATHER_STATE_FINE, grade |-> 0, applied |-> TRUE]>>

\* The packet sent directly to a player entering zoneId: the zone's cache
\* entry if it has one, else the current state of an initialized runtime,
\* else nothing.
PushLastAppliedWeatherToClient(la, rt, zoneId) ==
    IF zoneId \in DOMAIN la /\ la[zoneId].hasValue
      THEN <<[zone |-> zoneId, state |-> la[zoneId].state,
              grade |-> la[zoneId].grade, applied |-> TRUE]>>
    ELSE IF zoneId \in DOMAIN rt /\ rt[zoneId].initialized
      THEN <<[zone |-> zoneId, state |-> rt[zoneId].currentState,
              grade |-> rt[zoneId].currentGrade, applied |-> TRUE]>>
    ELSE <<>>

\* A session enters or leaves zone z.  WeatherVibe_PlayerScript's hooks
\* write nothing; while the module is enabled they send the entering player
\* a packet of its own.
SessionMoves(z) ==
    /\ started
    /\ occupied' = IF z \in occupied THEN occupied \ {z} ELSE occupied \cup {z}
    /\ lastOp' = Op("session", z, 0, TRUE)
    /\ sent' = IF z \notin occupied /\ g_EnableModule
                THEN PushLastAppliedWeatherToClient(g_LastApplied, g_Runtime, z)
                ELSE <<>>
    /\ calls' = <<>>
    /\ UNCHANGED <<started, dayPart, g_EnableModule, globals, g_LastApplied, g_Runtime,
                   s_LastDp>>

Startup(files) == \E file \in files, enable \in BOOLEAN : OnStartup(file, enable)
Tick == \E diffMs \in DiffChoices : SchedulerUpdate(diffMs)
TickInterval == SchedulerUpdate(IntervalMs(CurEnv))
Reload(files) == \E file \in files : HandleWvibeReload(file)
WvibeSet ==
    \E z \in ZoneIds, st \in ManualStates, p \in ManualPercents :
        HandleCommandPercent(z, st, p)
WvibeSetRaw ==
    \E z \in ZoneIds, st \in ManualStates, g \in ManualGrades :
        HandleCommandRaw(z, st, g)

\* The scheduler on its own.
Next ==
    \/ Startup(ConfigFiles)
    \/ Tick
    \/ Reload(ConfigFiles)
    \/ DayPartChange

Spec == Init /\ [][Next]_vars

\* The scheduler with an operator at the console.
NextConsole ==
    \/ Startup(ConsoleFiles)
    \/ Tick
    \/ Reload(ConsoleFiles)
    \/ DayPartChange
    \/ WvibeSet
    \/ WvibeSetRaw

SpecConsole == Init /\ [][NextConsole]_vars

\* The scheduler over two zones, with sessions coming and going.
NextZones ==
    \/ Startup(ZoneFiles)
    \/ TickInterval
    \/ Reload(ZoneFiles)
    \/ DayPartChange
    \/ \E z \in ZoneIds : SessionMoves(z)

SpecZones == Init /\ [][NextZones]_vars

\* The scheduler left to run: the host's world update calls OnUpdate at
\* every world tick, so ticks keep arriving.
NextProgress ==
    \/ Startup(ProgressFiles)
    \/ Tick
    \/ DayPartChange

\* OnUpdate runs at every world tick for as long as the server runs.
TicksKeepArriving == []<><<Tick>>_vars

SpecProgress == Init /\ [][NextProgress]_vars /\ TicksKeepArriving


\* ================================================================= claims
\* Shorthands over the calls and packets of the operation that led here.
Calls == {calls[i] : i \in DOMAIN calls}
PlanCalls == {c \in Calls : c.fn = "PlanNewEffect"}
\* A plan that picked an effect (it did not return early with Idle).
Planned(c) == c.fn = "PlanNewEffect" /\ c.post.phase # "Idle"
FirstPlans == {c \in Calls : Planned(c) /\ ~c.pre.initialized}
\* An executor invocation that does a fade step.
FadeOutSteps == {c \in Calls : c.fn = "AdvanceFadeOut" /\ c.pre.fadeOutStepsLeft > 0}
FadeInSteps == {c \in Calls : c.fn = "AdvanceFadeIn" /\ c.pre.fadeInStepsLeft > 0}
ActiveEntries(z) ==
    LET entries == GetZoneDaypart(CurEnv, z, dayPart)
    IN {entries[i].state : i \in {j \in 1..Len(entries) : entries[j].weight > 0}}
LastOf(seq) == seq[Len(seq)]

\* C1: for any planned fade with N > 0 steps, the N-th executor invocation
\* (the one that finds one step left) pushes exactly the fade's target: a
\* fade-out its fade-out target, a fade-in its apex.
C1_FadeOutConverges ==
    \A c \in FadeOutSteps :
        c.pre.fadeOutStepsLeft = 1 => c.sent[1].grade = c.pre.fadeOutTarget
C1_FadeInConverges ==
    \A c \in FadeInSteps :
        c.pre.fadeInStepsLeft = 1 => LastOf(c.sent).grade = c.pre.apexTarget
C1_FadeConverges == C1_FadeOutConverges /\ C1_FadeInConverges


\* C2: a fade never overshoots: every intensity a fade-in invocation pushes
\* is <= the plan's apex, and the intensity a fade-out step pushes is >= the
\* plan's fade-out target.
C2_NoOvershoot ==
    /\ \A c \in FadeInSteps :
          \A i \in DOMAIN c.sent : c.sent[i].grade <= c.pre.apexTarget
    /\ \A c \in FadeOutSteps : c.sent[1].grade >= c.pre.fadeOutTarget

\* A fade-in step that a full step would carry past the apex.
C2_Witness ==
    \E c \in FadeInSteps :
        /\ Max(c.pre.currentGrade, c.pre.fadeInStart) + g_FadeStepValue > c.pre.apexTarget
        /\ c.sent[1].grade = c.pre.apexTarget

\* C3: when the bucket has at least two positive-weight candidates and the
\* last-picked effect has been picked R (>= 1) consecutive times, the plan
\* does not pick that effect again.
C3_RepeatAvoided ==
    \A c \in PlanCalls :
        (/\ g_RepeatMax >= 1
         /\ c.pre.rpt.repeats >= g_RepeatMax
         /\ Cardinality(ActiveEntries(c.zone)) >= 2)
        => /\ Planned(c)
           /\ c.post.nextState # c.pre.rpt.lastPicked

\* A plan made when the last pick, one of two candidates, is at the ceiling.
C3_Witness ==
    \E c \in PlanCalls :
        /\ c.pre.rpt.repeats = g_RepeatMax
        /\ g_RepeatMax = 2
        /\ Cardinality(ActiveEntries(c.zone)) = 2
        /\ c.pre.rpt.lastPicked \in ActiveEntries(c.zone)
        /\ c.post.nextState # c.pre.rpt.lastPicked

\* C4: when the over-repeated effect is the only positive-weight candidate,
\* the selector returns lastPicked and the planner plans that same effect: it
\* does not go Idle and picks nothing else.
C4_ContinuityFallback ==
    \A c \in PlanCalls :
        (/\ c.pre.rpt.repeats >= g_RepeatMax
         /\ ActiveEntries(c.zone) = {c.pre.rpt.lastPicked})
        => /\ \A u \in RandUnitDraws :
                WeightedPick(GetZoneDaypart(CurEnv, c.zone, dayPart), c.pre.rpt,
                             g_RepeatMax, u) = c.pre.rpt.lastPicked
           /\ Planned(c)
           /\ c.post.nextState = c.pre.rpt.lastPicked
           /\ c.post.rpt = RepeatState(c.pre.rpt.lastPicked, c.pre.rpt.repeats + 1)

\* A plan made with the only candidate already at the repeat ceiling.
C4_Witness ==
    \E c \in PlanCalls :
        /\ c.pre.rpt.repeats >= g_RepeatMax
        /\ ActiveEntries(c.zone) = {c.pre.rpt.lastPicked}
        /\ c.post.rpt.repeats = c.pre.rpt.repeats + 1


\* The RepeatState a zone carries into the intervals of this tick: what the
\* reset left, or, for a zone the tick skipped, what it had.
RptAtDispatch(z) ==
    LET resets == {c \in Calls : c.fn = "ResetRepeatsOnContextChange" /\ c.zone = z}
    IN IF resets = {} THEN g_Runtime[z].rpt
       ELSE (CHOOSE c \in resets : TRUE).post.rpt

\* C5 as stated: in the tick in which the bucket differs from the one
\* recorded at the end of the previous tick, the RepeatState of every managed
\* zone is reset to (none, 0).
C5_ResetEveryZone ==
    [][(lastOp'.name = "SchedulerUpdate" /\ s_LastDp # NoDp /\ s_LastDp # dayPart)
        => \A z \in DOMAIN g_Runtime :
              RptAtDispatch(z)' = RepeatState(WEATHER_STATE_FINE, 0)]_vars

\* C5 (amended): in that tick the RepeatState of every managed zone whose
\* stagger offset is used up is reset to (none, 0), whatever its phase, and a
\* second reset changes nothing; a zone still inside its stagger offset is
\* skipped and keeps its RepeatState.
C5_ResetPastStagger ==
    [][(lastOp'.name = "SchedulerUpdate" /\ s_LastDp # NoDp /\ s_LastDp # dayPart)
        => \A z \in DOMAIN g_Runtime :
              IF g_Runtime'[z].zoneOffsetMs = 0
                THEN /\ RptAtDispatch(z)' = RepeatState(WEATHER_STATE_FINE, 0)
                     /\ LET once == ResetRepeatsOnContextChange(g_Runtime[z],
                                                                s_LastDp, dayPart)
                        IN /\ once.rpt = RepeatState(WEATHER_STATE_FINE, 0)
                           /\ ResetRepeatsOnContextChange(once, s_LastDp, dayPart) = once
                ELSE g_Runtime'[z].rpt = g_Runtime[z].rpt]_vars

\* A tick after a bucket change that reset a zone in the middle of a fade-in.
C5_Witness ==
    /\ lastOp.name = "SchedulerUpdate"
    /\ \E c \in Calls :
          /\ c.fn = "ResetRepeatsOnContextChange"
          /\ c.pre.phase = "FadeIn"
          /\ c.pre.rpt.repeats >= 1
          /\ c.post.rpt = RepeatState(WEATHER_STATE_FINE, 0)

\* C6 as stated: no planner, executor or timer call is made for a zone, and
\* so nothing is pushed for it, while stagger offset remains.
C6_NoActivityInStagger == \A c \in Calls : c.pre.zoneOffsetMs = 0

\* C6 (amended): apart from the startup hook's immediate first plan, a zone
\* gets no planner, executor or timer call, no push and no phase change
\* while stagger offset remains: a tick of d ms only lowers an offset o > d to
\* o - d and leaves the rest of the zone and its last-applied entry as they
\* were.
C6_StaggerInTicks ==
    [][lastOp'.name # "OnStartup" =>
        /\ \A i \in DOMAIN calls' : calls'[i].pre.zoneOffsetMs = 0
        /\ lastOp'.name = "SchedulerUpdate" =>
             \A z \in DOMAIN g_Runtime :
                LET o == g_Runtime[z].zoneOffsetMs
                    d == lastOp'.arg
                IN /\ g_Runtime'[z].zoneOffsetMs = (IF o > d THEN o - d ELSE 0)
                   /\ o > d =>
                        /\ g_Runtime'[z] = [g_Runtime[z] EXCEPT !.zoneOffsetMs = o - d]
                        /\ \A i \in DOMAIN sent' : sent'[i].zone # z
                        /\ \A i \in DOMAIN calls' : calls'[i].zone # z
                        /\ (z \in DOMAIN g_LastApplied') = (z \in DOMAIN g_LastApplied)
                        /\ z \in DOMAIN g_LastApplied =>
                             g_LastApplied'[z] = g_LastApplied[z]]_vars

\* A tick has passed over a freshly reloaded zone that still has offset left.
C6_Witness ==
    /\ lastOp.name = "SchedulerUpdate"
    /\ \E z \in DOMAIN g_Runtime :
          /\ g_Runtime[z].zoneOffsetMs > 0
          /\ ~g_Runtime[z].initialized
          /\ g_Runtime[z].phase = "Idle"
    /\ calls = <<>>

\* No fade-out step, plan or dwell call interrupts a fade-in, and a zone that
\* has not had its first plan is Idle with nothing to fade.
FadeInUninterrupted ==
    /\ \A c \in Calls :
          /\ c.pre.phase = "FadeIn" /\ c.fn # "ResetRepeatsOnContextChange"
               => c.fn = "AdvanceFadeIn" /\ c.post.phase \in {"FadeIn", "Dwell"}
          /\ c.fn = "AdvanceFadeOut" => c.pre.initialized /\ c.pre.phase = "FadeOut"
    /\ \A z \in DOMAIN g_Runtime :
          ~g_Runtime[z].initialized =>
              g_Runtime[z].phase = "Idle" /\ g_Runtime[z].fadeOutStepsLeft = 0

\* C7 as stated: the first push of a fresh zone is the picked effect at its
\* band minimum for the current bucket, the first plan has no fade-out, and no
\* fade-out step runs before the first fade-in has completed.
C7_FirstActivation ==
    /\ \A c \in FirstPlans :
          /\ c.sent # <<>>
          /\ c.sent[1].state = c.post.nextState
          /\ c.sent[1].grade = GetRange(CurEnv, dayPart, c.post.nextState).min
          /\ c.post.fadeOutStepsLeft = 0
          /\ c.post.phase \in {"FadeIn", "Dwell"}
    /\ FadeInUninterrupted

\* C7 (amended): the first push is the band minimum brought inside the core
\* bounds (a minimum of 1.0 goes out as 0.9999); the rest as stated.
C7_FirstActivationClamped ==
    /\ \A c \in FirstPlans :
          /\ c.sent # <<>>
          /\ c.sent[1].state = c.post.nextState
          /\ c.sent[1].grade =
                ClampToCoreBounds(GetRange(CurEnv, dayPart, c.post.nextState).min)
          /\ c.post.fadeOutStepsLeft = 0
          /\ c.post.phase \in {"FadeIn", "Dwell"}
    /\ FadeInUninterrupted

\* A first plan that pushed the band minimum and set out on a fade-in.
C7_Witness ==
    \E c \in FirstPlans :
        /\ c.post.phase = "FadeIn"
        /\ c.post.fadeInStepsLeft > 0
        /\ c.sent[1].grade = GetRange(CurEnv, dayPart, c.post.nextState).min
        /\ c.sent[1].grade < c.post.apexTarget

\* C8: re-planning the current effect with an apex equal to the current
\* intensity (within kEps) plans no fade-out and no fade-in and enters Dwell.
C8_SameApexNoFade ==
    \A c \in PlanCalls :
        (/\ Planned(c)
         /\ c.pre.initialized
         /\ c.post.nextState = c.pre.currentState
         /\ c.post.apexTarget - c.pre.currentGrade <= kEps
         /\ c.pre.currentGrade - c.post.apexTarget <= kEps)
        => /\ c.post.fadeOutStepsLeft = 0
           /\ c.post.fadeInStepsLeft = 0
           /\ c.post.phase = "Dwell"

\* C9: a zone in (or entering) FadeOut keeps the previous effect as current,
\* and a zone in FadeIn has the pending pick as its current effect, which is
\* the effect every fade-in push carries.
C9_EffectSwitch ==
    /\ \A c \in Calls : c.post.phase = "FadeOut" => c.post.currentState = c.pre.currentState
    /\ \A z \in DOMAIN g_Runtime :
          g_Runtime[z].phase = "FadeIn" =>
              g_Runtime[z].currentState = g_Runtime[z].nextState
    /\ \A c \in FadeInSteps :
          \A i \in DOMAIN c.sent : c.sent[i].state = c.pre.nextState

\* C10: every zone's current intensity, every last-applied intensity and
\* every intensity handed to the sink lies in [0, 1), for scheduler pushes
\* and manual pushes alike.
InCoreBounds(g) == 0 <= g /\ g < One
C10_IntensityBounds ==
    /\ \A z \in DOMAIN g_Runtime : InCoreBounds(g_Runtime[z].currentGrade)
    /\ \A z \in DOMAIN g_LastApplied : InCoreBounds(g_LastApplied[z].grade)
    /\ \A i \in DOMAIN sent : InCoreBounds(sent[i].grade)

\* A manual raw grade above 1 has been pulled back to 0.9999 while the
\* scheduler holds a zone whose apex of 1.0 was pulled back likewise.
C10_Witness ==
    /\ lastOp.name = "HandleCommandRaw"
    /\ lastOp.ok
    /\ sent # <<>>
    /\ sent[1].grade = kMaxGrade
    /\ \E z \in DOMAIN g_Runtime :
          /\ g_Runtime[z].apexTarget = One
          /\ g_Runtime[z].currentGrade = kMaxGrade
          /\ z # lastOp.zone


\* The calls that put a zone into Dwell: a plan with no fade to do, the
\* landing of a fade-in, the end of a fade-out that has no fade-in.
DwellEntries ==
    {c \in Calls : /\ c.fn \in {"PlanNewEffect", "AdvanceFadeIn", "AdvanceFadeOut"}
                   /\ c.post.phase = "Dwell"
                   /\ (c.pre.phase # "Dwell" \/ c.fn = "PlanNewEffect")}
\* The dwell durations (ms) of zone z's candidate st in day part dp.
DwellBand(E, z, dp, st) ==
    LET found == FindEntry(GetZoneDaypart(E, z, dp), st)
    IN IF found = <<>> THEN {}
       ELSE RandDuration(found[1].dwellMinSec, found[1].dwellMaxSec)
\* The dwell timer is the only thing that moves the remaining dwell of a
\* zone that stays in Dwell: down by one interval per processed interval.
DwellOnlyCountsDown ==
    \A z \in DOMAIN g_Runtime \cap DOMAIN g_Runtime' :
        (/\ g_Runtime[z].phase = "Dwell"
         /\ g_Runtime'[z].phase = "Dwell"
         /\ \A i \in DOMAIN calls' :
               ~(calls'[i].zone = z /\ calls'[i].fn = "PlanNewEffect"))
        => g_Runtime'[z].phaseRemainingMs =
             g_Runtime[z].phaseRemainingMs
             - IntervalMs(CurEnv)
               * Cardinality({i \in DOMAIN calls' :
                                 calls'[i].zone = z /\ calls'[i].fn = "AdvanceDwell"})

\* C11 as stated: every entry into Dwell sets the remaining dwell to a value
\* of the winning candidate's dwell band (the band of the pending pick, in
\* whichever day part), and a zone that stays in Dwell only counts it down.
C11_DwellFromBand ==
    [][/\ \A i \in DOMAIN calls' :
             LET c == calls'[i]
             IN (/\ c.fn \in {"PlanNewEffect", "AdvanceFadeIn", "AdvanceFadeOut"}
                 /\ c.post.phase = "Dwell"
                 /\ (c.pre.phase # "Dwell" \/ c.fn = "PlanNewEffect"))
                => c.post.phaseRemainingMs \in
                     UNION {DwellBand(CurEnv', c.zone, dp, c.post.nextState) : dp \in DayParts}
       /\ DwellOnlyCountsDown]_vars

\* C11 (amended): a plan that enters Dwell draws the remaining dwell from the
\* winning candidate's band; a fade-in that lands draws it from the band the
\* current bucket lists for the zone's current effect, or takes 5000 ms when
\* the bucket does not list that effect; a fade-out that ends without a
\* fade-in enters Dwell without drawing (the remaining dwell stays 0).  A
\* zone that stays in Dwell only counts the value down, one interval per
\* processed interval.
C11_DwellEntry ==
    [][/\ \A i \in DOMAIN calls' :
             LET c == calls'[i]
                 planned == DwellBand(CurEnv', c.zone, dayPart', c.post.nextState)
                 listed == DwellBand(CurEnv', c.zone, dayPart', c.post.currentState)
             IN (/\ c.post.phase = "Dwell"
                 /\ (c.pre.phase # "Dwell" \/ c.fn = "PlanNewEffect"))
                => /\ c.fn = "PlanNewEffect" => c.post.phaseRemainingMs \in planned
                   /\ c.fn = "AdvanceFadeIn" =>
                        c.post.phaseRemainingMs \in
                            (IF listed = {} THEN {5000} ELSE listed)
                   /\ c.fn = "AdvanceFadeOut" =>
                        /\ c.post.phaseRemainingMs = c.pre.phaseRemainingMs
                        /\ c.post.phaseRemainingMs = 0
       /\ DwellOnlyCountsDown]_vars

\* A fade-in landed with a dwell of its band and the timer then took one
\* interval off it.
C11_Witness ==
    \E c1 \in DwellEntries, c2 \in Calls :
        /\ c1.fn = "AdvanceFadeIn"
        /\ c1.post.phaseRemainingMs \in DwellBand(CurEnv, c1.zone, dayPart, c1.post.currentState)
        /\ c2.fn = "AdvanceDwell"
        /\ c2.zone = c1.zone
        /\ c2.pre.phase = "Dwell"
        /\ c2.pre.phaseRemainingMs = c1.post.phaseRemainingMs
        /\ c2.post.phase = "Dwell"
        /\ c2.post.phaseRemainingMs = c1.post.phaseRemainingMs - IntervalMs(CurEnv)


\* A world without the delivery results of its packets.
Undelivered(W) ==
    [rt |-> W.rt,
     la |-> W.la,
     sent |-> [i \in DOMAIN W.sent |->
                 [zone |-> W.sent[i].zone, state |-> W.sent[i].state,
                  grade |-> W.sent[i].grade]],
     calls |-> [i \in DOMAIN W.calls |->
                  [fn |-> W.calls[i].fn, zone |-> W.calls[i].zone,
                   pre |-> W.calls[i].pre, post |-> W.calls[i].post]]]
\* What the tick of diffMs could have left had the sessions been in occ.
TickOutcomes(diffMs, occ) ==
    UpdateZones(CurEnv, IF s_LastDp = NoDp THEN dayPart ELSE s_LastDp, diffMs,
                {[World(g_Runtime, g_LastApplied) EXCEPT !.occupied = occ]},
                DOMAIN g_Runtime)
\* What the startup plans could have left had the sessions been in occ.
StartupOutcomes(E, rt, occ) ==
    PlanAll(E, {[World(SeedRuntime([z \in DOMAIN rt |-> rt[z].zoneOffsetMs]), <<>>)
                    EXCEPT !.occupied = occ]},
            DOMAIN rt)

\* C12: the delivery result of a push never alters scheduling state: what a
\* tick (or the startup plan) leaves in every ZoneRuntime and in the
\* last-applied cache, with the same draws, is what it would have left under
\* any other delivery results.
C12_SinkIndependent ==
    [][LET here == Undelivered([rt |-> g_Runtime', la |-> g_LastApplied',
                                sent |-> sent', calls |-> calls'])
       IN \A occ \in SUBSET ZoneIds :
             /\ lastOp'.name = "SchedulerUpdate" =>
                  here \in {Undelivered(W) : W \in TickOutcomes(lastOp'.arg, occ)}
             /\ (lastOp'.name = "OnStartup" /\ lastOp'.ok) =>
                  here \in {Undelivered(W) :
                              W \in StartupOutcomes(CurEnv', g_Runtime', occ)}]_vars

\* One tick pushed a packet that was delivered and one that was not, and
\* both are in the last-applied cache.
C12_Witness ==
    /\ lastOp.name = "SchedulerUpdate"
    /\ \E i, j \in DOMAIN sent :
          /\ sent[i].applied
          /\ ~sent[j].applied
          /\ g_LastApplied[sent[j].zone].hasValue
          /\ g_Runtime[sent[j].zone].currentGrade = g_LastApplied[sent[j].zone].grade


\* C13: a plan for a zone whose current bucket has no positive-weight
\* candidate sets the phase to Idle and changes nothing else of the zone
\* (effect, intensity, fade plan, RepeatState, initialized flag), and pushes
\* nothing.
C13_IdleFrame ==
    \A c \in PlanCalls :
        ActiveEntries(c.zone) = {}
        => /\ c.post = [c.pre EXCEPT !.phase = "Idle"]
           /\ c.sent = <<>>

\* A dwelling zone with an effect on show was sent to Idle by the planner.
C13_Witness ==
    \E c \in PlanCalls :
        /\ ActiveEntries(c.zone) = {}
        /\ c.pre.phase = "Dwell"
        /\ c.pre.initialized
        /\ c.pre.currentGrade > 0
        /\ c.pre.currentState # WEATHER_STATE_FINE
        /\ c.post.phase = "Idle"


\* C14: an Idle zone past its stagger calls the planner at each processed
\* interval: while the bucket has no positive-weight candidate it stays Idle
\* with one planner call per interval, and at the first processed interval at
\* which the bucket has one it leaves Idle; no plan leaves a zone Idle when
\* the bucket has a positive-weight candidate.
C14_IdleRetried ==
    [][lastOp'.name = "SchedulerUpdate" =>
        /\ \A z \in DOMAIN g_Runtime :
              LET n == (g_Runtime[z].msAccumulator + lastOp'.arg) \div IntervalMs(CurEnv)
                  plans == {i \in DOMAIN calls' :
                               /\ calls'[i].zone = z
                               /\ calls'[i].fn = "PlanNewEffect"
                               /\ calls'[i].pre.phase = "Idle"}
              IN (g_Runtime[z].phase = "Idle" /\ g_Runtime'[z].zoneOffsetMs = 0)
                 => IF ActiveEntries(z) = {}
                      THEN /\ Cardinality(plans) = n
                           /\ g_Runtime'[z].phase = "Idle"
                      ELSE /\ Cardinality(plans) = (IF n > 0 THEN 1 ELSE 0)
                           /\ n > 0 => g_Runtime'[z].phase \in {"FadeOut", "FadeIn", "Dwell"}
        /\ \A i \in DOMAIN calls' :
              (calls'[i].fn = "PlanNewEffect" /\ ActiveEntries(calls'[i].zone) # {})
              => calls'[i].post.phase \in {"FadeOut", "FadeIn", "Dwell"}]_vars

\* A zone that sat Idle through a bucket without candidates left Idle at the
\* first interval processed after the bucket with a candidate came back.
C14_Witness ==
    /\ lastOp.name = "SchedulerUpdate"
    /\ \E c \in PlanCalls :
          /\ c.pre.phase = "Idle"
          /\ c.pre.initialized
          /\ ActiveEntries(c.zone) # {}
          /\ c.post.phase # "Idle"
          /\ g_Runtime[c.zone].phase # "Idle"


\* The fade-in invocations that bring the step counter to zero.
FadeInLandings == {c \in FadeInSteps : c.post.fadeInStepsLeft = 0}

C16_ReloadRebuilds ==
    [][/\ (lastOp'.name = "HandleWvibeReload" /\ lastOp'.ok) =>
            /\ DOMAIN g_Runtime' = {z \in ZoneIds : ZoneHasProfile(g_ZoneModel', z)}
            /\ \A z \in DOMAIN g_Runtime' :
                  /\ g_Runtime'[z] = ZoneRuntime(z, g_Runtime'[z].zoneOffsetMs)
                  /\ g_Runtime'[z].zoneOffsetMs \in
                        {x * 1000 : x \in 0..g_SchedulerSpreadMaxOffsetSec'}
                  /\ g_Runtime'[z].phase = "Idle"
                  /\ ~g_Runtime'[z].initialized
                  /\ g_Runtime'[z].fadeOutStepsLeft = 0
                  /\ g_Runtime'[z].fadeInStepsLeft = 0
                  /\ g_Runtime'[z].rpt = RepeatState(WEATHER_STATE_FINE, 0)
                  /\ g_Runtime'[z].msAccumulator = 0
       /\ lastOp'.name = "SchedulerUpdate" =>
            /\ DOMAIN g_Runtime' = DOMAIN g_Runtime
            /\ \A i \in DOMAIN sent' :
                  /\ sent'[i].zone \in DOMAIN g_Runtime
                  /\ ZoneHasProfile(g_ZoneModel, sent'[i].zone)
            /\ \A i \in DOMAIN calls' : calls'[i].zone \in DOMAIN g_Runtime]_vars

\* A reload has dropped zone 2, which had been pushed to, and has put zone
\* 1, which had an effect on show, back to a fresh Idle runtime.
C16_Witness ==
    /\ lastOp.name = "HandleWvibeReload"
    /\ lastOp.ok
    /\ DOMAIN g_Runtime = {1}
    /\ 2 \in DOMAIN g_LastApplied
    /\ 1 \in DOMAIN g_LastApplied
    /\ g_LastApplied[1].grade > 3000
    /\ g_Runtime[1].phase = "Idle"
    /\ ~g_Runtime[1].initialized


\* The calls the interval loop itself makes for zone z (one at most per
\* processed interval; none for a fade whose step timer is still running).
Dispatched(cs, z) ==
    {i \in DOMAIN cs :
        /\ cs[i].zone = z
        /\ \/ cs[i].fn \in {"AdvanceDwell", "AdvanceFadeOut", "AdvanceFadeIn"}
           \/ cs[i].fn = "PlanNewEffect" /\ cs[i].pre.phase = "Idle"}

\* C17: for a zone past its stagger with accumulator a, a tick of e ms
\* processes floor((a + e) / interval) intervals, each dispatching at most
\* once (exactly once for a zone that is Idle or dwelling throughout; a fade
\* whose step timer is running makes no call), and leaves the
\* accumulator at (a + e) mod interval, below one interval; an interval of 0
\* counts as 1000 ms.
C17_CatchUp ==
    [][lastOp'.name = "SchedulerUpdate" =>
        \A z \in DOMAIN g_Runtime :
            LET I == IF g_IntervalSec = 0 THEN 1000 ELSE g_IntervalSec * 1000
                total == g_Runtime[z].msAccumulator + lastOp'.arg
                n == total \div I
                done == Dispatched(calls', z)
            IN g_Runtime'[z].zoneOffsetMs = 0
               => /\ g_Runtime'[z].msAccumulator = total % I
                  /\ g_Runtime'[z].msAccumulator < I
                  /\ Cardinality(done) <= n
                  /\ (/\ g_Runtime[z].phase \in {"Idle", "Dwell"}
                      /\ \A i \in done : calls'[i].post.phase \in {"Idle", "Dwell"})
                       => Cardinality(done) = n]_vars

\* A tick of 2000 ms on an accumulator of 500 ms, with the interval given as
\* 0: two intervals processed, 500 ms left.
C17_Witness ==
    /\ lastOp.name = "SchedulerUpdate"
    /\ lastOp.arg = 2000
    /\ g_IntervalSec = 0
    /\ \E z \in DOMAIN g_Runtime :
          /\ g_Runtime[z].msAccumulator = 500
          /\ Cardinality(Dispatched(calls, z)) = 2


\* What processing zone z alone in a tick of diffMs can leave.
ZoneAlone(diffMs, z) ==
    UpdateZone(CurEnv, IF s_LastDp = NoDp THEN dayPart ELSE s_LastDp, diffMs,
               World(g_Runtime, g_LastApplied), z)
\* The last-applied entry of zone y in cache la (<<>> when it has none).
CacheEntry(la, y) == IF y \in DOMAIN la THEN <<la[y]>> ELSE <<>>

\* C18: processing one zone in a tick (stagger, reset, planner, executor,
\* dwell timer) leaves the ZoneRuntime and the last-applied entry of every
\* other zone as they were and pushes only for that zone; so what a tick
\* leaves of a zone is what processing that zone alone would leave.
C18_ZonesIndependent ==
    [][lastOp'.name = "SchedulerUpdate" =>
        \A z \in DOMAIN g_Runtime :
            /\ \A W \in ZoneAlone(lastOp'.arg, z) :
                  /\ \A y \in DOMAIN g_Runtime \ {z} : W.rt[y] = g_Runtime[y]
                  /\ DOMAIN W.rt = DOMAIN g_Runtime
                  /\ \A y \in ZoneIds \ {z} :
                        CacheEntry(W.la, y) = CacheEntry(g_LastApplied, y)
                  /\ \A i \in DOMAIN W.sent : W.sent[i].zone = z
                  /\ \A i \in DOMAIN W.calls : W.calls[i].zone = z
            /\ \E W \in ZoneAlone(lastOp'.arg, z) :
                  /\ W.rt[z] = g_Runtime'[z]
                  /\ CacheEntry(W.la, z) = CacheEntry(g_LastApplied', z)]_vars

\* One tick pushed for both zones, and each zone's cache entry holds that
\* zone's own intensity, different from the other's.
C18_Witness ==
    /\ lastOp.name = "SchedulerUpdate"
    /\ DOMAIN g_Runtime = {1, 2}
    /\ \E i, j \in DOMAIN sent : sent[i].zone = 1 /\ sent[j].zone = 2
    /\ g_LastApplied[1].grade = g_Runtime[1].currentGrade
    /\ g_LastApplied[2].grade = g_Runtime[2].currentGrade
    /\ g_LastApplied[1].grade # g_LastApplied[2].grade


\* The plans, after the first, that picked an effect other than the current.
DifferentPlans ==
    {c \in PlanCalls :
        Planned(c) /\ c.pre.initialized /\ c.post.nextState # c.pre.currentState}
\* The fade-out steps of a transition to another effect.
DifferentFadeOutSteps == {c \in FadeOutSteps : c.pre.nextState # c.pre.currentState}

\* C19: when the picked effect differs from the current one, the fade-out is
\* planned from the old effect's band maximum down to the new effect's band
\* minimum, its pushes carry the old effect at intensities inside that span
\* and end on the new band minimum; then the new effect is pushed at its band
\* minimum (brought inside the core bounds) and the fade-in that follows
\* pushes the new effect from that minimum up to the apex.
C19_DifferentEffect ==
    /\ \A c \in DifferentPlans :
          LET newRange == GetRange(CurEnv, dayPart, c.post.nextState)
              curRange == GetRange(CurEnv, dayPart, c.pre.currentState)
          IN /\ c.post.fadeOutStart = curRange.max
             /\ c.post.fadeOutTarget = newRange.min
             /\ c.post.fadeInStart = newRange.min
             /\ c.post.phase = "FadeIn" =>
                  /\ c.sent # <<>>
                  /\ LastOf(c.sent).state = c.post.nextState
                  /\ LastOf(c.sent).grade = ClampToCoreBounds(newRange.min)
    /\ \A c \in DifferentFadeOutSteps :
          /\ c.sent[1].state = c.pre.currentState
          /\ c.sent[1].grade <= c.pre.fadeOutStart
          /\ c.sent[1].grade >= c.pre.fadeOutTarget
          /\ c.pre.fadeOutStepsLeft = 1 =>
               /\ c.sent[1].grade = c.pre.fadeOutTarget
               /\ c.pre.fadeInStepsLeft > 0 =>
                    /\ Len(c.sent) = 2
                    /\ c.sent[2].state = c.pre.nextState
                    /\ c.sent[2].grade = ClampToCoreBounds(c.pre.fadeInStart)
                    /\ c.post.phase = "FadeIn"
    /\ \A c \in FadeInSteps :
          /\ \A i \in DOMAIN c.sent :
                /\ c.sent[i].state = c.pre.nextState
                /\ c.sent[i].grade >= ClampToCoreBounds(c.pre.fadeInStart)
                /\ c.sent[i].grade <= c.pre.apexTarget
          /\ c.post.fadeInStepsLeft = 0 =>
               LastOf(c.sent).grade = ClampToCoreBounds(c.pre.apexTarget)


\* The plans that picked the current effect again with a higher apex.
SameUpPlans ==
    {c \in PlanCalls :
        /\ Planned(c)
        /\ c.pre.initialized
        /\ c.post.nextState = c.pre.currentState
        /\ c.post.apexTarget > c.pre.currentGrade + kEps}

\* C20: a plan of the current effect with an apex above the current
\* intensity has no fade-out, pushes nothing, keeps the current intensity
\* and enters a fade-in counted from max(current, new band minimum); every
\* fade-in step pushes min(apex, max(current, band minimum) + step), never
\* less than the zone's intensity before the step, and nothing but fade-in
\* steps runs during a fade-in: no push of the transition is below the
\* intensity at plan time.
C20_SameUp ==
    /\ \A c \in SameUpPlans :
          LET newRange == GetRange(CurEnv, dayPart, c.post.nextState)
              from == Max(c.pre.currentGrade, newRange.min)
          IN /\ c.post.fadeOutStepsLeft = 0
             /\ c.post.fadeInStepsLeft = StepsFor(c.post.apexTarget - from, g_FadeStepValue)
             /\ c.post.fadeInStepsLeft > 0
             /\ c.post.phase = "FadeIn"
             /\ c.post.fadeInStart = newRange.min
             /\ c.post.currentGrade = c.pre.currentGrade
             /\ c.post.currentState = c.pre.currentState
             /\ c.sent = <<>>
    /\ \A c \in FadeInSteps :
          /\ c.sent[1].grade =
                ClampToCoreBounds(Min(c.pre.apexTarget,
                                      Max(c.pre.currentGrade, c.pre.fadeInStart)
                                      + g_FadeStepValue))
          /\ \A i \in DOMAIN c.sent : c.sent[i].grade >= c.pre.currentGrade
          /\ c.post.currentGrade >= c.pre.currentGrade
    /\ \A c \in Calls :
          (c.pre.phase = "FadeIn" /\ c.fn # "ResetRepeatsOnContextChange")
          => c.fn = "AdvanceFadeIn"


\* The plans that picked the current effect again with a lower apex.
SameDownPlans ==
    {c \in PlanCalls :
        /\ Planned(c)
        /\ c.pre.initialized
        /\ c.post.nextState = c.pre.currentState
        /\ c.post.apexTarget < c.pre.currentGrade - kEps}
\* The fade-out steps of a fade within one effect that has no fade-in.
SameDownSteps ==
    {c \in FadeOutSteps :
        c.pre.nextState = c.pre.currentState /\ c.pre.fadeInStepsLeft = 0}
\* What the calls of one operation show of the same-effect fade down.
SameDownCalls ==
    /\ \A c \in SameDownPlans :
          /\ c.post.fadeOutStart = c.pre.currentGrade
          /\ c.post.fadeOutTarget = c.post.apexTarget
          /\ c.post.fadeOutStepsLeft =
                StepsFor(c.pre.currentGrade - c.post.apexTarget, g_FadeStepValue)
          /\ c.post.fadeOutStepsLeft > 0
          /\ c.post.fadeInStepsLeft = 0
          /\ c.post.phase = "FadeOut"
          /\ c.post.currentState = c.pre.currentState
          /\ c.post.currentGrade = c.pre.currentGrade
          /\ c.sent = <<>>
    /\ \A c \in SameDownSteps :
          /\ Len(c.sent) = 1
          /\ c.sent[1].state = c.pre.currentState
          /\ c.sent[1].grade <= c.pre.currentGrade
          /\ c.sent[1].grade >= c.pre.fadeOutTarget
          /\ c.post.currentState = c.pre.currentState
          /\ c.post.fadeInStepsLeft = 0
          /\ c.post.phase = (IF c.pre.fadeOutStepsLeft = 1 THEN "Dwell" ELSE "FadeOut")
          /\ c.pre.fadeOutStepsLeft = 1 =>
               /\ c.sent[1].grade = c.pre.fadeOutTarget
               /\ c.pre.fadeOutTarget = c.pre.apexTarget
    /\ \A c \in Calls :
          (c.pre.phase = "FadeOut" /\ c.fn # "ResetRepeatsOnContextChange")
          => c.fn = "AdvanceFadeOut"
    /\ \A c \in Calls :
          (c.pre.initialized /\ c.post.currentState # c.pre.currentState)
          => c.fn = "AdvanceFadeOut" /\ c.pre.fadeInStepsLeft > 0

\* C21: a plan of the current effect with an apex below the current
\* intensity has a fade-out from the current intensity down to the apex and
\* no fade-in; its steps push the current effect, from the current intensity
\* down, the last one the apex, and then the zone dwells; while the zone's
\* runtime lives, nothing but a fade-out that has a fade-in to follow changes
\* the current effect, so it (and the effect of every push) stays as it was
\* from that plan to the next.
C21_SameDown ==
    [][/\ SameDownCalls'
       /\ \A z \in DOMAIN g_Runtime \cap DOMAIN g_Runtime' :
             (g_Runtime[z].initialized /\ lastOp'.name # "HandleWvibeReload")
             => /\ g_Runtime[z].fadeInStepsLeft = 0
                    => \/ g_Runtime'[z].currentState = g_Runtime[z].currentState
                       \/ \E i \in DOMAIN calls' :
                             calls'[i].zone = z /\ calls'[i].fn = "PlanNewEffect"
                /\ \A i \in DOMAIN calls' : calls'[i].zone = z =>
                      \/ calls'[i].pre.currentState = g_Runtime[z].currentState
                      \/ \E j \in 1..(i - 1) :
                            calls'[j].zone = z /\ calls'[j].fn = "PlanNewEffect"]_vars

\* The last step of a fade down within one effect pushed the apex, still
\* with that effect, and the zone went to dwell on it.
C21_Witness ==
    \E c \in SameDownSteps :
        /\ c.pre.fadeOutStepsLeft = 1
        /\ c.pre.fadeOutTarget = c.pre.apexTarget
        /\ c.pre.apexTarget < c.pre.currentGrade
        /\ c.pre.fadeOutStart > c.pre.apexTarget
        /\ c.sent[1].grade = c.pre.apexTarget
        /\ c.sent[1].state = c.pre.nextState
        /\ c.post.phase = "Dwell"



\* The plans that picked an effect, first run or later.
SuccessfulPlans == {c \in PlanCalls : Planned(c)}

\* C22: a plan that picked an effect leaves the zone in FadeOut when the
\* planned fade-out step count is nonzero, else in FadeIn when the planned
\* fade-in step count is nonzero, else in Dwell with a remaining dwell drawn
\* from the picked candidate's dwell band; a plan that enters a fade draws the
\* step timer from the fade-step band and leaves the remaining dwell alone.
\* This is so for the first run and for each of the three later cases.
C22_PlannedPhase ==
    \A c \in SuccessfulPlans :
        LET fading == c.post.fadeOutStepsLeft > 0 \/ c.post.fadeInStepsLeft > 0
        IN /\ c.post.fadeOutStepsLeft >= 0
           /\ c.post.fadeInStepsLeft >= 0
           /\ c.post.phase = (IF c.post.fadeOutStepsLeft > 0 THEN "FadeOut"
                              ELSE IF c.post.fadeInStepsLeft > 0 THEN "FadeIn"
                              ELSE "Dwell")
           /\ IF fading
                THEN /\ c.post.stepRemainingMs \in
                           RandDuration(g_FadeStepMinSec, g_FadeStepMaxSec)
                     /\ c.post.phaseRemainingMs = c.pre.phaseRemainingMs
                ELSE c.post.phaseRemainingMs \in
                        DwellBand(CurEnv, c.zone, dayPart, c.post.nextState)
           /\ (~c.pre.initialized
               \/ PlanCase(c.pre, c.post.nextState, c.post.apexTarget) = "up")
              => c.post.fadeOutStepsLeft = 0
           /\ (c.pre.initialized
               /\ PlanCase(c.pre, c.post.nextState, c.post.apexTarget) = "down")
              => c.post.fadeInStepsLeft = 0

\* A later plan with nothing to fade went straight to Dwell with the longer
\* of the picked candidate's two dwell times.
C22_Witness ==
    \E c \in SuccessfulPlans :
        /\ c.pre.initialized
        /\ c.post.fadeOutStepsLeft = 0
        /\ c.post.fadeInStepsLeft = 0
        /\ c.post.phase = "Dwell"
        /\ DwellBand(CurEnv, c.zone, dayPart, c.post.nextState) = {1000, 2000}
        /\ c.post.phaseRemainingMs = 2000



\* C23: a plan that picked an effect equal to the prior lastPicked adds one
\* to the consecutive-pick counter, and any other pick makes RepeatState
\* (pick, 1); so after it lastPicked is the picked effect and the counter is
\* at least 1.  A plan that picked nothing leaves RepeatState alone.
C23_RepeatTracking ==
    \A c \in PlanCalls :
        IF Planned(c)
          THEN /\ c.post.rpt =
                    (IF c.post.nextState = c.pre.rpt.lastPicked
                       THEN RepeatState(c.pre.rpt.lastPicked, c.pre.rpt.repeats + 1)
                       ELSE RepeatState(c.post.nextState, 1))
               /\ c.post.rpt.lastPicked = c.post.nextState
               /\ c.post.rpt.repeats >= 1
          ELSE c.post.rpt = c.pre.rpt

\* With two candidates to pick from, a plan picked the last effect again
\* and took the counter from 1 to 2.
C23_Witness ==
    \E c \in PlanCalls :
        /\ Planned(c)
        /\ c.pre.initialized
        /\ c.pre.rpt.repeats = 1
        /\ c.post.nextState = c.pre.rpt.lastPicked
        /\ c.post.rpt = RepeatState(c.post.nextState, 2)
        /\ Cardinality(ActiveEntries(c.zone)) = 2



\* C24: whenever the planner gets to pick (the current bucket has a
\* positive-weight candidate), whatever the draw, the selector returns an
\* effect the bucket lists for the zone with weight > 0, the planner finds
\* its entry and plans it: a disabled candidate or an effect the bucket does
\* not list is never selected.
C24_PickIsCandidate ==
    \A c \in PlanCalls :
        LET entries == GetZoneDaypart(CurEnv, c.zone, dayPart)
        IN IF ActiveEntries(c.zone) # {}
             THEN /\ \A u \in RandUnitDraws :
                        WeightedPick(entries, c.pre.rpt, g_RepeatMax, u)
                            \in ActiveEntries(c.zone)
                  /\ Planned(c)
                  /\ c.post.nextState \in ActiveEntries(c.zone)
                  /\ FindEntry(entries, c.post.nextState) # <<>>
                  /\ FindEntry(entries, c.post.nextState)[1].weight > 0
             ELSE ~Planned(c) /\ c.post.nextState = c.pre.nextState

\* A plan for a zone whose bucket lists a disabled candidate ahead of an
\* enabled one picked the enabled one, though the zone's last pick was the
\* disabled effect's id.
C24_Witness ==
    \E c \in PlanCalls :
        LET entries == GetZoneDaypart(CurEnv, c.zone, dayPart)
        IN /\ Len(entries) = 2
           /\ entries[1].weight = 0
           /\ entries[2].weight > 0
           /\ c.pre.rpt.lastPicked = entries[1].state
           /\ Planned(c)
           /\ c.post.nextState = entries[2].state



\* The positions in cs of the calls made for zone z, the repeat reset aside.
ZoneCalls(cs, z) ==
    {i \in DOMAIN cs : cs[i].zone = z /\ cs[i].fn # "ResetRepeatsOnContextChange"}
\* The first of a nonempty set of positions.
FirstOf(S) == CHOOSE i \in S : \A j \in S : i <= j

\* C25: no remaining dwell time is carried through a fade-out (it is 0 in
\* every state in which a zone is in FadeOut), so a fade-out that ends
\* without a fade-in leaves the zone in Dwell with zero remaining time; and
\* the first interval processed for a zone dwelling with zero remaining time
\* invokes the planner.
C25_ZeroDwellAfterFadeOut ==
    [][/\ \A z \in DOMAIN g_Runtime' :
             g_Runtime'[z].phase = "FadeOut" => g_Runtime'[z].phaseRemainingMs = 0
       /\ \A i \in DOMAIN calls' :
             LET c == calls'[i]
                 later == {j \in ZoneCalls(calls', c.zone) : j > i}
             IN /\ c.post.phase = "FadeOut" => c.post.phaseRemainingMs = 0
                /\ (c.fn = "AdvanceFadeOut" /\ c.post.phase = "Dwell") =>
                      /\ c.pre.fadeInStepsLeft = 0
                      /\ c.post.phaseRemainingMs = 0
                      /\ later # {} =>
                           /\ calls'[FirstOf(later)].fn = "PlanNewEffect"
                           /\ calls'[FirstOf(later)].pre.phase = "Dwell"
       /\ lastOp'.name = "SchedulerUpdate" =>
            \A z \in DOMAIN g_Runtime :
                (/\ g_Runtime[z].phase = "Dwell"
                 /\ g_Runtime[z].phaseRemainingMs = 0
                 /\ g_Runtime'[z].zoneOffsetMs = 0
                 /\ g_Runtime[z].msAccumulator + lastOp'.arg >= IntervalMs(CurEnv))
                => /\ ZoneCalls(calls', z) # {}
                   /\ calls'[FirstOf(ZoneCalls(calls', z))].fn = "PlanNewEffect"
                   /\ calls'[FirstOf(ZoneCalls(calls', z))].pre.phase = "Dwell"]_vars

\* The dwell timer found a zone that had just ended a fade-out without a
\* fade-in, with zero remaining dwell, and the planner ran.
C25_Witness ==
    /\ dayPart = "MORNING"
    /\ \E i, j \in DOMAIN calls :
          /\ i < j
          /\ calls[i].zone = calls[j].zone
          /\ calls[i].fn = "PlanNewEffect"
          /\ calls[j].fn = "AdvanceDwell"
          /\ calls[j].pre.phase = "Dwell"
          /\ calls[j].pre.phaseRemainingMs = 0
          /\ calls[j].pre.fadeInStepsLeft = 0
          /\ calls[j].pre.fadeOutStart > calls[j].pre.fadeOutTarget
          /\ calls[j].pre.currentGrade = calls[j].pre.fadeOutTarget
          /\ Planned(calls[i])



\* The dwell timer call at position i of the log invoked the planner: the
\* plan is logged just before it, made on the zone with its remaining dwell
\* clamped to 0, and what the plan left is what the timer call left.
DwellPlanned(i) ==
    /\ i > 1
    /\ calls[i - 1].fn = "PlanNewEffect"
    /\ calls[i - 1].zone = calls[i].zone
    /\ calls[i - 1].pre = [calls[i].pre EXCEPT !.phaseRemainingMs = 0]
    /\ calls[i - 1].post = calls[i].post
DwellCalls == {i \in DOMAIN calls : calls[i].fn = "AdvanceDwell"}

\* C26 as stated: with remaining dwell D and interval I, if D - I >= 0 the
\* timer only sets the remaining time to D - I and does not invoke the
\* planner; it invokes the planner, with the remaining time clamped to 0,
\* only when D - I would be negative.
C26_DwellTimer ==
    \A i \in DwellCalls :
        LET D == calls[i].pre.phaseRemainingMs
            I == IntervalMs(CurEnv)
        IN IF D - I >= 0
             THEN /\ calls[i].post = [calls[i].pre EXCEPT !.phaseRemainingMs = D - I]
                  /\ ~DwellPlanned(i)
             ELSE DwellPlanned(i)

\* C26 (amended): if D > I the timer only sets the remaining time to D - I
\* and does not invoke the planner; if D <= I (the dwell runs out in this
\* interval, exactly or with time to spare) it clamps the remaining time to
\* 0 and invokes the planner.
C26_DwellTimerExpiry ==
    \A i \in DwellCalls :
        LET D == calls[i].pre.phaseRemainingMs
            I == IntervalMs(CurEnv)
        IN /\ calls[i].pre.phase = "Dwell"
           /\ IF D > I
                THEN /\ calls[i].post = [calls[i].pre EXCEPT !.phaseRemainingMs = D - I]
                     /\ ~DwellPlanned(i)
                     /\ calls[i].sent = <<>>
                ELSE DwellPlanned(i)

\* A dwell of exactly one interval ran out: the timer invoked the planner,
\* which picked an effect.
C26_Witness ==
    \E i \in DwellCalls :
        /\ calls[i].pre.phaseRemainingMs = IntervalMs(CurEnv)
        /\ DwellPlanned(i)
        /\ Planned(calls[i - 1])
        /\ calls[i].post.phase # "Dwell"



\* C27: each processed interval first takes the interval off the fade-step
\* timer (not below 0), and the executor is invoked for a fading zone only
\* when the timer is then 0: a tick that processes n intervals for a fading
\* zone whose timer t exceeds n intervals makes no call and no push for it
\* and leaves its intensity, effect, step counters and phase as they were,
\* with t - n intervals on the timer; otherwise the first call for the zone
\* is the executor of its phase, at the interval at which the timer reaches
\* 0.
C27_StepPacing ==
    [][lastOp'.name = "SchedulerUpdate" =>
        /\ \A i \in DOMAIN calls' :
              calls'[i].fn \in {"AdvanceFadeOut", "AdvanceFadeIn"}
              => /\ calls'[i].pre.stepRemainingMs = 0
                 /\ calls'[i].pre.phase =
                       (IF calls'[i].fn = "AdvanceFadeOut" THEN "FadeOut" ELSE "FadeIn")
        /\ \A z \in DOMAIN g_Runtime :
              LET rt == g_Runtime[z]
                  I == IntervalMs(CurEnv)
                  total == rt.msAccumulator + lastOp'.arg
                  n == total \div I
                  t == rt.stepRemainingMs
                  k == Max(1, CeilDiv(t, I))
                  mine == ZoneCalls(calls', z)
              IN (rt.phase \in {"FadeOut", "FadeIn"} /\ g_Runtime'[z].zoneOffsetMs = 0)
                 => IF t > n * I \/ n = 0
                      THEN /\ mine = {}
                           /\ \A i \in DOMAIN sent' : sent'[i].zone # z
                           /\ g_Runtime'[z] =
                                 [rt EXCEPT !.stepRemainingMs = Max(0, t - n * I),
                                            !.msAccumulator = total % I,
                                            !.zoneOffsetMs = 0,
                                            !.rpt = g_Runtime'[z].rpt]
                      ELSE /\ mine # {}
                           /\ calls'[FirstOf(mine)].fn =
                                 (IF rt.phase = "FadeOut" THEN "AdvanceFadeOut"
                                  ELSE "AdvanceFadeIn")
                           /\ calls'[FirstOf(mine)].pre =
                                 [rt EXCEPT !.stepRemainingMs = 0,
                                            !.msAccumulator = total - k * I,
                                            !.zoneOffsetMs = 0,
                                            !.rpt = calls'[FirstOf(mine)].pre.rpt]]_vars

\* A tick processed an interval for a zone in the middle of a fade whose
\* step timer had more than that to run: half the step time is left, and
\* nothing was called or pushed for the zone.
C27_Witness ==
    /\ lastOp.name = "SchedulerUpdate"
    /\ sent = <<>>
    /\ \E z \in DOMAIN g_Runtime :
          /\ g_Runtime[z].phase \in {"FadeOut", "FadeIn"}
          /\ g_FadeStepMinSec = 2
          /\ g_Runtime[z].stepRemainingMs = 1000
          /\ g_Runtime[z].zoneOffsetMs = 0
          /\ ZoneCalls(calls, z) = {}
          /\ \E i \in DOMAIN calls : calls[i].zone = z



\* C28: whenever an initialized zone is in Dwell, its current effect is the
\* effect the planner picked last (the pending effect); and a call that puts
\* the zone into Dwell after a pick of another effect has pushed that effect.
C28_DwellOnPicked ==
    /\ \A z \in DOMAIN g_Runtime :
          (g_Runtime[z].initialized /\ g_Runtime[z].phase = "Dwell")
          => g_Runtime[z].currentState = g_Runtime[z].nextState
    /\ \A c \in DwellEntries :
          /\ c.post.currentState = c.post.nextState
          /\ c.pre.currentState # c.post.nextState =>
                \E i \in DOMAIN c.sent : c.sent[i].state = c.post.nextState



\* Phase and step counters of one ZoneRuntime agree.
CountersAgree(rt) ==
    /\ rt.fadeOutStepsLeft >= 0
    /\ rt.fadeInStepsLeft >= 0
    /\ rt.phase = "FadeOut" => rt.fadeOutStepsLeft > 0
    /\ rt.phase = "FadeIn" => rt.fadeInStepsLeft > 0
    /\ rt.phase \in {"Idle", "Dwell"} =>
          rt.fadeOutStepsLeft = 0 /\ rt.fadeInStepsLeft = 0

\* C29: in every reachable state, and after every planner, executor and
\* timer call, both step counters are >= 0, a zone in FadeOut has fade-out
\* steps left, a zone in FadeIn has fade-in steps left (the executor never
\* finds a zone in FadeIn with nothing to do), and a zone that is Idle or in
\* Dwell has both counters at 0.
C29_CountersConsistent ==
    /\ \A z \in DOMAIN g_Runtime : CountersAgree(g_Runtime[z])
    /\ \A c \in Calls : CountersAgree(c.pre) /\ CountersAgree(c.post)
    /\ \A c \in Calls : c.fn = "AdvanceFadeIn" => c.pre.fadeInStepsLeft > 0
    /\ \A c \in Calls : c.fn = "AdvanceFadeOut" => c.pre.fadeOutStepsLeft > 0

\* A fade-out of several steps with a fade-in to follow is under way: one
\* step done, fade-out steps left, the fade-in steps waiting.
C29_Witness ==
    \E c \in FadeOutSteps :
        /\ c.pre.fadeOutStepsLeft >= 2
        /\ c.post.fadeOutStepsLeft = c.pre.fadeOutStepsLeft - 1
        /\ c.post.fadeInStepsLeft > 0
        /\ c.post.phase = "FadeOut"
        /\ g_Runtime[c.zone] = c.post



\* Zone z is in the middle of a fade / is dwelling.
Fading(z) == z \in DOMAIN g_Runtime /\ g_Runtime[z].phase \in {"FadeOut", "FadeIn"}
Dwelling(z) == z \in DOMAIN g_Runtime /\ g_Runtime[z].phase = "Dwell"
\* Zone z has reached Dwell: it is there now, or the last operation took it
\* there on its way (a tick of several intervals may enter Dwell and leave
\* it again).
ReachedDwell(z) ==
    Dwelling(z) \/ \E c \in Calls : c.zone = z /\ c.post.phase = "Dwell"
\* The last operation invoked the planner for zone z.
PlannerInvoked(z) == \E c \in PlanCalls : c.zone = z

\* C30: while ticks keep arriving and every bucket has a positive-weight
\* candidate, a zone that is in FadeOut or FadeIn eventually reaches Dwell,
\* a zone in Dwell eventually has the planner invoked again, and the planner
\* then picks (the zone is never sent to Idle): no zone stays in one phase
\* for ever.
C30_Progress ==
    \A z \in FileBothParts.zoneList :
        /\ Fading(z) ~> ReachedDwell(z)
        /\ Dwelling(z) ~> PlannerInvoked(z)
        /\ [](z \in DOMAIN g_Runtime => g_Runtime[z].phase # "Idle")

\* A zone that had faded out and in, landed on its apex and dwelt there was
\* planned again when the dwell ran out.
C30_Witness ==
    \E i \in DwellCalls :
        /\ DwellPlanned(i)
        /\ Planned(calls[i - 1])
        /\ calls[i].pre.fadeOutStart > calls[i].pre.fadeOutTarget
        /\ calls[i].pre.currentState = calls[i].pre.nextState
        /\ calls[i].pre.currentState # WEATHER_STATE_FINE
        /\ calls[i].pre.currentGrade = calls[i].pre.apexTarget
        /\ calls[i].pre.currentGrade > calls[i].pre.fadeInStart


\* C31: during a fade-out the intensities pushed for the old effect never
\* rise: a fade-out step pushes the old effect at an intensity that is not
\* higher than the zone's intensity before that step.
C31_FadeOutNeverRises ==
    \A c \in FadeOutSteps :
        /\ c.sent # <<>>
        /\ c.sent[1].state = c.pre.currentState
        /\ c.sent[1].grade <= c.pre.currentGrade


\* The initialized zones of the scheduler.
InitializedZones == {z \in DOMAIN g_Runtime : g_Runtime[z].initialized}
\* The last operation was a session entering zone z with the module enabled.
SessionEntered(z) ==
    lastOp.name = "session" /\ lastOp.zone = z /\ z \in occupied /\ g_EnableModule

\* C32: with no manual command issued, the last-applied cache entry of every
\* initialized zone is that zone's current effect and current intensity, and
\* a player entering such a zone is sent exactly that effect and intensity.
C32_CacheFollowsScheduler ==
    \A z \in InitializedZones :
        /\ z \in DOMAIN g_LastApplied
        /\ g_LastApplied[z] =
             LastApplied(g_Runtime[z].currentState, g_Runtime[z].currentGrade)
        /\ SessionEntered(z) =>
             sent = <<[zone |-> z, state |-> g_Runtime[z].currentState,
                       grade |-> g_Runtime[z].currentGrade, applied |-> TRUE]>>

\* A player enters a zone that the scheduler has moved off its first push:
\* the zone is on Fog above the band minimum.
C32_Witness ==
    \E z \in InitializedZones :
        /\ SessionEntered(z)
        /\ sent # <<>>
        /\ g_Runtime[z].currentState = WEATHER_STATE_FOG
        /\ g_Runtime[z].currentGrade > g_Runtime[z].fadeInStart


\* The effects zone z may be given in day part dp (positive weight).
ActiveStates(z, dp) ==
    LET entries == GetZoneDaypart(CurEnv, z, dp)
    IN {entries[i].state : i \in {j \in 1..Len(entries) : entries[j].weight > 0}}
\* Every time bucket offers zone z at least two effects.
TwoCandidatesEverywhere(z) == \A dp \in DayParts : Cardinality(ActiveStates(z, dp)) >= 2

\* C33: with a repeat ceiling of at least 1 and at least two positive-weight
\* candidates for the zone in every time bucket, the zone's count of
\* consecutive picks of one effect never exceeds the ceiling.
C33_RepeatCeiling ==
    \A z \in DOMAIN g_Runtime :
        (g_RepeatMax >= 1 /\ TwoCandidatesEverywhere(z)) =>
            g_Runtime[z].rpt.repeats <= g_RepeatMax

\* A plan found the count at the ceiling and turned to the other candidate.
C33_Witness ==
    \E c \in PlanCalls :
        /\ Planned(c)
        /\ g_RepeatMax >= 1
        /\ TwoCandidatesEverywhere(c.zone)
        /\ c.pre.initialized
        /\ c.pre.rpt.repeats = g_RepeatMax
        /\ c.post.rpt = RepeatState(c.post.nextState, 1)
        /\ c.post.nextState # c.pre.rpt.lastPicked


\* The last operation was a manual set or setRaw command.
ManualCommand(op) == op.name \in {"HandleCommandPercent", "HandleCommandRaw"}

\* C34: a manual command that is rejected (module disabled, or an effect id
\* that is not accepted) returns failure and leaves the last-applied cache
\* and every ZoneRuntime as they were; an accepted one returns success,
\* changes no cache entry but the target zone's and no ZoneRuntime.
C34_ManualCommand ==
    [][ManualCommand(lastOp') =>
         /\ g_Runtime' = g_Runtime
         /\ globals' = globals
         /\ IF ~g_EnableModule \/ lastOp'.arg \notin kAcceptedStates
              THEN /\ ~lastOp'.ok
                   /\ g_LastApplied' = g_LastApplied
                   /\ sent' = <<>>
              ELSE /\ lastOp'.ok
                   /\ DOMAIN g_LastApplied' = DOMAIN g_LastApplied \cup {lastOp'.zone}
                   /\ \A y \in DOMAIN g_LastApplied \ {lastOp'.zone} :
                         g_LastApplied'[y] = g_LastApplied[y]
                   /\ g_LastApplied'[lastOp'.zone].state = lastOp'.arg]_vars

\* An operator's command with an effect id that is not accepted was turned
\* down while the module was enabled and the target zone was being driven.
C34_Witness ==
    /\ ManualCommand(lastOp)
    /\ ~lastOp.ok
    /\ g_EnableModule
    /\ lastOp.arg \notin kAcceptedStates
    /\ lastOp.zone \in DOMAIN g_Runtime
    /\ g_Runtime[lastOp.zone].initialized
    /\ lastOp.zone \in DOMAIN g_LastApplied

====
